---- MODULE Spec2Model ----
(***************************************************************************)
(* Model of the latent-dynamics and imagination code of sheeprl:           *)
(*   dreamer_v2/dreamer_v2.py  train   (dynamic learning, imagination,     *)
(*                                      lambda values, discount)           *)
(*   dreamer_v1/agent.py       RSSM.dynamic, RSSM.imagination              *)
(*   p2e/p2e.py                train   (the dynamic learning loop, which   *)
(*                                      ends the call at line 98)          *)
(* and of the actor and critic objectives of train (SpecObjective), of     *)
(* build_models and PlayerDV1 of dreamer_v1/agent.py and of the rollout    *)
(* loop of main (SpecPlayer), of the replay-buffer records of dreamer_v2's *)
(* main (SpecBuffer), of its training rounds and target critic             *)
(* (SpecSchedule) and of one update of ppo_recurrent (SpecRecurrent).      *)
(*                                                                         *)
(* Tensors are symbolic terms: a tuple whose head names the computation    *)
(* that produced it and whose tail holds the tensors it was computed from. *)
(* Two tensors are equal exactly when they were computed the same way from *)
(* the same inputs, so a network is an uninterpreted function and a sample *)
(* drawn with fresh noise differs from every other sample.  The numerical  *)
(* part (lambda values, discount) is computed on exact rationals.          *)
(***************************************************************************)
EXTENDS Integers, Sequences, FiniteSets, TLC

\* ------------------------------------------------------------------ bounds
\* per_rank_sequence_length (T), per_rank_batch_size (B) and the largest
\* horizon (H) the model explores.
MaxSeqLen == 2
MaxBatch == 2
MaxHorizon == 2
\* The largest number of lambda values the numerical part computes.
MaxReturnHorizon == 3

Algos == {"dreamer_v2", "dreamer_v1", "p2e"}

VARIABLES
    algo,                   \* which training function runs
    pc,                     \* position in the training function
    i,                      \* the loop variable of the running for loop
    sequence_length,        \* args.per_rank_sequence_length
    batch_size,             \* args.per_rank_batch_size
    horizon,                \* args.horizon
    is_first,               \* data["is_first"][t][b], 0 or 1
    recurrent_state,        \* the loop's recurrent state, per example
    posterior,              \* the loop's stochastic state, per example
    recurrent_states,       \* [t][b], filled by the dynamic learning loop
    posteriors,             \* [t][b]
    posteriors_logits,      \* [t][b] (P2E: states_mean, states_std)
    priors_logits,          \* [t][b] (P2E: pred_states_mean, pred_states_std)
    returned,               \* what the last stepper call returned, per example
    rng,                    \* number of noise tensors drawn so far
    dynamic_calls,          \* stepper calls made by the dynamic learning loop
    imagine_steps,          \* transition steps made by the imagination loop
    imagined_prior,         \* per trajectory n
    imagined_latent_state,  \* per trajectory n
    imagined_trajectories,  \* [index][n]
    imagined_actions,       \* [index][n]
    called,                 \* the sub-models invoked since imagination began
    \* the numerical part, for one imagined trajectory (every operation on
    \* these tensors is elementwise over the trajectories)
    lmbda,                  \* args.lmbda
    gamma,                  \* args.gamma
    use_continues,          \* args.use_continues and world_model.continue_model
    dones,                  \* data["dones"] of the trajectory's seed timestep
    predicted_rewards,
    predicted_target_values,
    continues,
    lambda_values,
    discount,
    \* the actor and the critic objective, for the same trajectory
    objective_mix,          \* args.objective_mix
    has_entropy,            \* whether the policies implement entropy()
    log_probs,              \* the log-probabilities of the imagined actions
    objective,
    entropy,
    policy_loss,
    value_loss,
    \* the parameters and the optimizers
    param_version,          \* how many optimizer steps each model has taken
    trace,                  \* the loss, backward and step events so far
    \* construction and the live rollout of main
    args,                   \* the hyper-parameters build_models and main read
    models,                 \* what build_models did: the models built, the error
    player,                 \* the player's stored actions and states, per env
    env_dones,              \* the environments the last step reported done
    acted_on,               \* the stored state the last action was computed from
    stds,                   \* the last std produced by prior, posterior and player
    global_step,            \* the iteration of the rollout loop
    init_call,              \* the last direct call of init_states
    \* gradient clipping and the metrics of train
    clip_gradients,         \* args.clip_gradients: None or a number
    grads,                  \* world_model_grads, actor_grads, critic_grads
    aggregator,             \* the updates the metric aggregator received
    \* the replay buffer of main
    rb,                     \* what the replay buffer was given, in the order of the adds
    episode_steps,          \* the records of each environment not yet handed over
    step_data,              \* the row of each environment the loop last wrote
    env_obs,                \* the observation each environment is at: <<env, episode, step>>
    shares_storage,         \* whether a slice of step_data shares its tensors
    \* the training rounds of main
    step_before_training,   \* the iterations left before the next training round
    gradient_steps,         \* the training calls made since the process started
    target_critic,          \* the critic parameters the target critic holds
    rounds,                 \* the training rounds so far: their global_step and training calls
    local_data,             \* the sampled batches of the round not yet trained on
    \* recurrent PPO: the rollout and the training sequences
    next_done,              \* whether each environment's last step ended its episode
    next_state,             \* the LSTM states the agent is called with next, per environment
    rollout_step,           \* the steps of the rollout made so far
    agent_inputs,           \* the states the agent was called with, per environment and step
    episodes,               \* the episodes the rollout is split into
    sequences,              \* the training sequences the episodes are split into
    epoch,                  \* the update epochs made so far
    train_states            \* the initial states train gave the agent, per epoch and sequence

vars == <<algo, pc, i, sequence_length, batch_size, horizon, is_first,
          recurrent_state, posterior, recurrent_states, posteriors,
          posteriors_logits, priors_logits, returned, rng, dynamic_calls,
          imagine_steps, imagined_prior, imagined_latent_state,
          imagined_trajectories, imagined_actions, called, lmbda, gamma,
          use_continues, dones, predicted_rewards, predicted_target_values,
          continues, lambda_values, discount, objective_mix, has_entropy,
          log_probs, objective, entropy, policy_loss, value_loss,
          param_version, trace, args, models, player, env_dones, acted_on,
          stds, global_step, init_call, clip_gradients, grads, aggregator,
          rb, episode_steps, step_data, env_obs, shares_storage,
          step_before_training, gradient_steps, target_critic, rounds, local_data,
          next_done, next_state, rollout_step, agent_inputs, episodes, sequences, epoch, train_states>>

\* The variables of the numerical part, and those of the rest of train.
numvars == <<lmbda, gamma, use_continues, dones, predicted_rewards,
             predicted_target_values, continues, lambda_values, discount>>
objvars == <<objective_mix, has_entropy, log_probs, objective, entropy,
             policy_loss, value_loss>>
optvars == <<param_version, trace>>
livevars == <<args, models, player, env_dones, acted_on, stds, global_step,
              init_call>>
gradvars == <<clip_gradients, grads, aggregator>>
bufvars == <<rb, episode_steps, step_data, env_obs, shares_storage>>
schedvars == <<step_before_training, gradient_steps, target_critic, rounds, local_data>>
ppovars == <<next_done, next_state, rollout_step, agent_inputs, episodes, sequences, epoch, train_states>>
\* The variables of the parts of the program modelled further down.
mainvars == <<bufvars, schedvars, ppovars>>
restvars == <<gradvars, mainvars>>
\* The variables no action of the training loops and of the return
\* computation writes.
sidevars == <<objvars, livevars, restvars>>
trainvars == <<i, sequence_length, batch_size, is_first, recurrent_state,
               posterior, recurrent_states, posteriors, posteriors_logits,
               priors_logits, returned, rng, dynamic_calls, imagine_steps,
               imagined_prior, imagined_latent_state, imagined_trajectories,
               imagined_actions, called>>

\* ------------------------------------------------------------------- terms
Zero == <<"zeros">>
Empty == <<"empty">>
Action(t, b) == <<"actions", t, b>>
EmbeddedObs(t, b) == <<"embedded_obs", t, b>>
Noise(k, b) == <<"noise", k, b>>
Cat(x, y) == <<"cat", x, y>>
Detach(x) == <<"detach", x>>

LeafHeads == {"zeros", "empty", "actions", "embedded_obs", "noise"}

\* The tensor with every detach() removed: detach() changes no value.
RECURSIVE Value(_)
Value(x) ==
    IF x[1] \in LeafHeads THEN x
    ELSE IF x[1] = "detach" THEN Value(x[2])
    ELSE IF Len(x) = 2 THEN <<x[1], Value(x[2])>>
    ELSE <<x[1], Value(x[2]), Value(x[3])>>

\* The tensors a gradient reaches from x: x and what it was computed from,
\* not looking through detach().
RECURSIVE GradPath(_)
GradPath(x) ==
    IF x[1] \in LeafHeads \/ x[1] = "detach" THEN {x}
    ELSE IF Len(x) = 2 THEN {x} \cup GradPath(x[2])
    ELSE {x} \cup GradPath(x[2]) \cup GradPath(x[3])

\* --------------------------------------------------------------- networks
\* RecurrentModel.forward: mlp, then one GRU step; out and the new recurrent
\* state of a one-step, one-layer GRU are the same tensor.
RecurrentModel(input, h) == <<"rnn", <<"mlp", input>>, h>>

\* compute_stochastic_state: the distribution parameters of a raw network
\* output and a reparameterised sample of it.
DistParams(raw) == <<"mean_std", raw>>
Sample(params, eps) == <<"sample", params, eps>>

TransitionModel(h) == <<"transition_model", h>>
RepresentationModel(h, e) == <<"representation_model", Cat(h, e)>>
Actor(latent, eps) == <<"actor", latent, eps>>

\* (1 - is_first) * x
Mask(first, x) == IF first = 1 THEN Zero ELSE x

\* ------------------------------------------------------------ the steppers
\* What enters the recurrent transition, read off the recurrent state it
\* produced: rnn(mlp(cat(stochastic, action)), recurrent).
RnnStochasticIn(h) == h[2][2][2]
RnnActionIn(h) == h[2][2][3]
RnnRecurrentIn(h) == h[3]

\* RSSM._transition and RSSM._representation of dreamer_v1/agent.py:
\* <<mean_std, sample>>.
RSSM_transition(recurrent_out, eps) ==
    LET prior_mean_std == DistParams(TransitionModel(recurrent_out))
    IN  <<prior_mean_std, Sample(prior_mean_std, eps)>>

RSSM_representation(h, embedded_obs, eps) ==
    LET posterior_mean_std == DistParams(RepresentationModel(h, embedded_obs))
    IN  <<posterior_mean_std, Sample(posterior_mean_std, eps)>>

\* A stepper whose transition model also reads the observation embedding.
RSSM_dynamic_PriorFromObs(post, h, action, embedded_obs, k, b) ==
    LET new_h == RecurrentModel(Cat(post, action), h)
        pr == RSSM_transition(Cat(new_h, embedded_obs), Noise(k, b))
        po == RSSM_representation(new_h, embedded_obs, Noise(k + 1, b))
    IN  <<new_h, po[2], pr[2], po[1], pr[1]>>

\* RSSM.dynamic of dreamer_v1/agent.py for one example b; k numbers the noise.
\* It takes no is_first and feeds the state it is given to the recurrent model.
RSSM_dynamic(post, h, action, embedded_obs, k, b) ==
    LET new_h == RecurrentModel(Cat(post, action), h)
        pr == RSSM_transition(new_h, Noise(k, b))
        po == RSSM_representation(new_h, embedded_obs, Noise(k + 1, b))
    IN  <<new_h, po[2], pr[2], po[1], pr[1]>>

\* rssm.dynamic of dreamer_v2/agent.py (called at dreamer_v2.py:152 with
\* is_first): steps 1-5 of the Dynamics Stepper.
RSSMv2_dynamic(post, h, action, embedded_obs, first, k, b) ==
    LET post0 == Mask(first, post)
        h0 == Mask(first, h)
        new_h == RecurrentModel(Cat(post0, action), h0)
        pr == RSSM_transition(new_h, Noise(k, b))
        po == RSSM_representation(new_h, embedded_obs, Noise(k + 1, b))
    IN  <<new_h, po[2], pr[2], po[1], pr[1]>>

\* A one-step imagination that goes through the representation model, as
\* RSSM.dynamic does.
RSSM_imagination_Posterior(stochastic_state, h, actions, k, n) ==
    LET new_h == RecurrentModel(Cat(stochastic_state, actions), h)
        po == RSSM_representation(new_h, EmbeddedObs(0, 0), Noise(k, n))
    IN  [imagined_prior |-> po[2], recurrent_state |-> new_h,
         calls |-> {"recurrent_model", "representation_model"}]

\* RSSM.imagination of dreamer_v1/agent.py for one trajectory n.
RSSM_imagination(stochastic_state, h, actions, k, n) ==
    LET new_h == RecurrentModel(Cat(stochastic_state, actions), h)
        pr == RSSM_transition(new_h, Noise(k, n))
    IN  [imagined_prior |-> pr[2], recurrent_state |-> new_h,
         calls |-> {"recurrent_model", "transition_model"}]

\* rssm.imagination of dreamer_v2/agent.py (called at dreamer_v2.py:271) is
\* not in src/: it takes and returns what RSSM.imagination of
\* dreamer_v1/agent.py does, and is stepped by it.
RSSMv2_imagination(stochastic_state, h, actions, k, n) ==
    RSSM_imagination(stochastic_state, h, actions, k, n)

\* ----------------------------------------------------------------- shapes
Steps == 0 .. (sequence_length - 1)
Batch == 0 .. (batch_size - 1)
Trajs == 0 .. (sequence_length * batch_size - 1)
\* reshape(1, -1, size) of a [T, B, size] tensor: row n is [n \div B][n % B].
Flatten(x) == [n \in Trajs |-> x[n \div batch_size][n % batch_size]]
ZerosTB == [t \in Steps |-> [b \in Batch |-> Zero]]
EmptyTB == [t \in Steps |-> [b \in Batch |-> Empty]]
None == <<>>

\* ------------------------------------------------------------------- Init
\* A training call: the configuration and the sampled window.  P2E's data
\* have no is_first key.
InitTrain ==
    /\ algo \in Algos
    /\ pc = "start"
    /\ sequence_length = MaxSeqLen
    /\ batch_size = MaxBatch
    /\ horizon \in IF algo = "dreamer_v2" THEN 1 .. MaxHorizon ELSE {1}
    /\ is_first \in IF algo = "p2e"
                    THEN {[t \in Steps |-> [b \in Batch |-> 0]]}
                    ELSE [Steps -> [Batch -> {0, 1}]]
    /\ recurrent_states = None
    /\ posteriors = None

NoReturns ==
    /\ lmbda = None /\ gamma = None /\ use_continues = FALSE /\ dones = 0
    /\ predicted_rewards = None /\ predicted_target_values = None
    /\ continues = None /\ lambda_values = None /\ discount = None

NoObjective ==
    /\ objective_mix = None /\ has_entropy = TRUE /\ log_probs = None
    /\ objective = None /\ entropy = None
    /\ policy_loss = None /\ value_loss = None

\* Outside main: nothing is built and no environment runs.
NoLive ==
    /\ args = None /\ models = None /\ player = None /\ env_dones = {}
    /\ acted_on = None /\ stds = None /\ global_step = 0 /\ init_call = None

\* No optimizer has stepped.
NoSteps ==
    /\ param_version = [world_model |-> 0, actor |-> 0, critic |-> 0]
    /\ trace = <<>>

\* args.clip_gradients: unset, zero or positive; unset prints as None and a
\* number is kept in value.
ClipSettings ==
    {[is_none |-> TRUE, value |-> 0], [is_none |-> FALSE, value |-> 0],
     [is_none |-> FALSE, value |-> 1]}
Clipping == [is_none |-> FALSE, value |-> 1]
\* No gradient norm is bound, the aggregator has received nothing.
NoGrads ==
    /\ grads = [world_model |-> "unbound", actor |-> "unbound", critic |-> "unbound"]
    /\ aggregator = <<>>
\* Outside the rollout loop of main: no buffer, no environment.
NoBuffer ==
    /\ rb = None /\ episode_steps = None /\ step_data = None
    /\ env_obs = None /\ shares_storage = FALSE
\* Outside the rollout loop of main: no training round.
NoSchedule ==
    /\ step_before_training = 0 /\ gradient_steps = 0 /\ target_critic = 0
    /\ rounds = <<>> /\ local_data = 0
\* Outside recurrent PPO.
NoRecurrent ==
    /\ next_done = None /\ next_state = None /\ rollout_step = 0
    /\ agent_inputs = None /\ episodes = None /\ sequences = None
    /\ epoch = 0 /\ train_states = <<>>
\* A run that clips gradients (the parts of train that follow the world
\* model update are reached with the norms bound only).
ClippedRun == clip_gradients = Clipping /\ NoGrads

NoTrain ==
    /\ i = 0
    /\ recurrent_state = None
    /\ posterior = None
    /\ posteriors_logits = None
    /\ priors_logits = None
    /\ returned = None
    /\ rng = 0
    /\ dynamic_calls = 0
    /\ imagine_steps = 0
    /\ imagined_prior = None
    /\ imagined_latent_state = None
    /\ imagined_trajectories = None
    /\ imagined_actions = None
    /\ called = {}

Init ==
    /\ InitTrain
    /\ NoTrain
    /\ NoReturns
    /\ NoObjective
    /\ NoSteps
    /\ NoLive
    /\ clip_gradients \in IF algo = "dreamer_v2" THEN ClipSettings ELSE {Clipping}
    /\ NoGrads
    /\ NoBuffer
    /\ NoSchedule
    /\ NoRecurrent

\* An optimization step that runs the optimizer before the loss exists.
UpdateEvents_StepFirst(model) ==
    <<<<"step", model>>, <<"loss", model>>, <<"backward", model>>>>

\* The events of one optimization step of a model, in the order of the code:
\* the loss is computed, back-propagated, then the optimizer steps.
UpdateEvents(model) == <<<<"loss", model>>, <<"backward", model>>, <<"step", model>>>>
Stepped(model) == [param_version EXCEPT ![model] = @ + 1]

\* A training call that leaves is_first of the sampled window as it is.
DV2_TrainStart_KeepsData ==
    /\ algo = "dreamer_v2" /\ pc = "start"
    /\ recurrent_state' = [b \in Batch |-> Zero]
    /\ posterior' = [b \in Batch |-> Zero]
    /\ recurrent_states' = ZerosTB
    /\ priors_logits' = EmptyTB
    /\ posteriors' = EmptyTB
    /\ posteriors_logits' = EmptyTB
    /\ i' = 0
    /\ pc' = "dynamic"
    /\ UNCHANGED <<algo, sequence_length, batch_size, horizon, is_first,
                   returned, rng, dynamic_calls, imagine_steps,
                   imagined_prior, imagined_latent_state,
                   imagined_trajectories, imagined_actions, called>>
    /\ UNCHANGED numvars
    /\ UNCHANGED <<sidevars, optvars>>

\* ------------------------------------------------- dreamer_v2.py: train
\* Lines 122-147: is_first of the first timestep is set, the loop state and
\* the collecting tensors are allocated.
DV2_TrainStart ==
    /\ algo = "dreamer_v2" /\ pc = "start"
    /\ is_first' = [is_first EXCEPT ![0] = [b \in Batch |-> 1]]
    /\ recurrent_state' = [b \in Batch |-> Zero]
    /\ posterior' = [b \in Batch |-> Zero]
    /\ recurrent_states' = ZerosTB
    /\ priors_logits' = EmptyTB
    /\ posteriors' = EmptyTB
    /\ posteriors_logits' = EmptyTB
    /\ i' = 0
    /\ pc' = "dynamic"
    /\ UNCHANGED <<algo, sequence_length, batch_size, horizon, returned, rng, dynamic_calls, imagine_steps,
                   imagined_prior, imagined_latent_state,
                   imagined_trajectories, imagined_actions, called>>
    /\ UNCHANGED numvars
    /\ UNCHANGED <<sidevars, optvars>>

\* Line 153: the arguments of the stepper call at timestep t for example b.
DV2_DynamicArgs(t, b) ==
    [posterior |-> posterior[b], recurrent_state |-> recurrent_state[b],
     action |-> Action(t, b), embedded_obs |-> EmbeddedObs(t, b),
     is_first |-> is_first[t][b]]

\* A binding that carries the prior sample in place of the posterior sample.
DV2_DynamicBind_Prior(ret) ==
    [recurrent_state |-> ret[1], posterior |-> ret[3],
     posterior_logits |-> ret[4], prior_logits |-> ret[5]]

\* Line 152: the names the returned tuple is bound to.
DV2_DynamicBind(ret) ==
    [recurrent_state |-> ret[1], posterior |-> ret[2],
     posterior_logits |-> ret[4], prior_logits |-> ret[5]]

\* A loop that stops at the first timestep that follows a done: the record
\* main adds after a done is the reset record, the one with is_first = 1
\* (dreamer_v2.py:689-700).
DV2_DynamicContinues_StopOnDone(t) ==
    t < sequence_length /\ \A b \in Batch : is_first[t][b] = 0

\* Line 149: the loop runs while i < sequence_length, whatever the data.
DV2_DynamicContinues(t) == t < sequence_length

\* Lines 149-158: one iteration of the dynamic learning loop.
DV2_DynamicStep ==
    /\ algo = "dreamer_v2" /\ pc = "dynamic"
    /\ LET ret == [b \in Batch |->
                      LET a == DV2_DynamicArgs(i, b)
                      IN  RSSMv2_dynamic(a.posterior, a.recurrent_state, a.action,
                                         a.embedded_obs, a.is_first, rng, b)]
           bound == [b \in Batch |-> DV2_DynamicBind(ret[b])]
       IN  /\ returned' = ret
           /\ recurrent_state' = [b \in Batch |-> bound[b].recurrent_state]
           /\ posterior' = [b \in Batch |-> bound[b].posterior]
           /\ recurrent_states' = [recurrent_states EXCEPT ![i] = recurrent_state']
           /\ priors_logits' = [priors_logits EXCEPT
                                   ![i] = [b \in Batch |-> bound[b].prior_logits]]
           /\ posteriors' = [posteriors EXCEPT ![i] = posterior']
           /\ posteriors_logits' = [posteriors_logits EXCEPT
                                       ![i] = [b \in Batch |-> bound[b].posterior_logits]]
    /\ rng' = rng + 2
    /\ dynamic_calls' = dynamic_calls + 1
    /\ UNCHANGED imagine_steps
    /\ i' = i + 1
    /\ pc' = IF DV2_DynamicContinues(i + 1) THEN "dynamic" ELSE "world"
    /\ UNCHANGED <<algo, sequence_length, batch_size, horizon, is_first,
                   imagined_prior, imagined_latent_state,
                   imagined_trajectories, imagined_actions, called>>
    /\ UNCHANGED numvars
    /\ UNCHANGED <<sidevars, optvars>>

\* Lines 202-205, 346-349, 363-366: the gradients are clipped, and the norm
\* bound to the local variable, only when args.clip_gradients is set and
\* positive; error_if_nonfinite = False returns a non-finite norm as it is.
ClipsGradients == ~clip_gradients.is_none /\ clip_gradients.value > 0
GradNorms == {"finite", "nonfinite"}
ClipGradients(model, norm) ==
    IF ClipsGradients THEN [grads EXCEPT ![model] = norm] ELSE grads
\* Lines 207, 351, 368: the local variable read by aggregator.update is
\* bound (UnboundLocalError otherwise).
Bound(norm) == norm # "unbound"
AggregatorUpdate(key, norm) ==
    IF Bound(norm) THEN Append(aggregator, <<key, norm>>) ELSE aggregator

\* Lines 160-221: the world model loss (line 185), its backward pass (line
\* 200) and the step of the world optimizer (line 206).
DV2_WorldModelUpdate ==
    /\ algo = "dreamer_v2" /\ pc = "world"
    /\ trace' = trace \o UpdateEvents("world_model")
    /\ param_version' = Stepped("world_model")
    /\ \E norm \in GradNorms : grads' = ClipGradients("world_model", norm)
    /\ aggregator' = AggregatorUpdate("Grads/world_model", grads'["world_model"])
    /\ pc' = IF Bound(grads'["world_model"]) THEN "behaviour" ELSE "raised"
    /\ UNCHANGED clip_gradients
    /\ UNCHANGED <<algo, i, sequence_length, batch_size, horizon, is_first,
                   recurrent_state, posterior, recurrent_states, posteriors,
                   posteriors_logits, priors_logits, returned, rng, dynamic_calls, imagine_steps,
                   imagined_prior, imagined_latent_state,
                   imagined_trajectories, imagined_actions, called>>
    /\ UNCHANGED numvars
    /\ UNCHANGED <<objvars, livevars, mainvars>>

\* A seed that is not detached.
DV2_SeedPrior_Attached(n) == Flatten(posteriors)[n]

\* Lines 225-231: the seed of the imagination for trajectory n.
DV2_SeedPrior(n) == Detach(Flatten(posteriors)[n])
DV2_SeedRecurrent(n) == Detach(Flatten(recurrent_states)[n])

\* Tensors allocated for the imagined steps alone, without a row for the
\* seed and the placeholder.
ImaginedRows_NoSeed == horizon

\* Lines 234-249: the number of rows imagined_trajectories and
\* imagined_actions are allocated with.
ImaginedRows == horizon + 1

\* Lines 223-249: the seed and the tensors of the imagined trajectories.
DV2_ImagineStart ==
    /\ algo = "dreamer_v2" /\ pc = "behaviour"
    /\ imagined_prior' = [n \in Trajs |-> DV2_SeedPrior(n)]
    /\ recurrent_state' = [n \in Trajs |-> DV2_SeedRecurrent(n)]
    /\ imagined_latent_state' =
           [n \in Trajs |-> Cat(imagined_prior'[n], recurrent_state'[n])]
    /\ imagined_trajectories' =
           [j \in 0 .. (ImaginedRows - 1) |->
               IF j = 0 THEN imagined_latent_state' ELSE [n \in Trajs |-> Empty]]
    /\ imagined_actions' =
           [j \in 0 .. (ImaginedRows - 1) |->
               [n \in Trajs |-> IF j = 0 THEN Zero ELSE Empty]]
    /\ called' = {}
    /\ i' = 1
    /\ pc' = "imagine"
    /\ UNCHANGED <<algo, sequence_length, batch_size, horizon, is_first,
                   posterior, recurrent_states, posteriors, posteriors_logits,
                   priors_logits, returned, rng, dynamic_calls, imagine_steps>>
    /\ UNCHANGED numvars
    /\ UNCHANGED <<sidevars, optvars>>

\* Line 267: the input of the policy.
DV2_PolicyInput(latent) == Detach(latent)

\* Every step writing the first slot of imagined_actions.
DV2_ActionSlot_Zero(j) == 0

\* Line 268: the slot of imagined_actions that step j writes.
DV2_ActionSlot(j) == j

\* Line 265: range(1, horizon + 1), whatever the imagined states are.
DV2_ImagineContinues(j) == j < horizon + 1

\* Lines 265-276: one imagination step.
DV2_ImagineStep ==
    /\ algo = "dreamer_v2" /\ pc = "imagine"
    /\ LET actions == [n \in Trajs |->
                          Actor(DV2_PolicyInput(imagined_latent_state[n]), Noise(rng, n))]
           im == [n \in Trajs |->
                     RSSMv2_imagination(imagined_prior[n], recurrent_state[n],
                                        actions[n], rng + 1, n)]
       IN  /\ imagined_actions' = [imagined_actions EXCEPT ![DV2_ActionSlot(i)] = actions]
           /\ imagined_prior' = [n \in Trajs |-> im[n].imagined_prior]
           /\ recurrent_state' = [n \in Trajs |-> im[n].recurrent_state]
           /\ imagined_latent_state' =
                  [n \in Trajs |-> Cat(imagined_prior'[n], recurrent_state'[n])]
           /\ imagined_trajectories' =
                  [imagined_trajectories EXCEPT ![i] = imagined_latent_state']
           /\ called' = called \cup {"actor"} \cup UNION {im[n].calls : n \in Trajs}
    /\ rng' = rng + 2
    /\ imagine_steps' = imagine_steps + 1
    /\ UNCHANGED dynamic_calls
    /\ i' = i + 1
    /\ pc' = IF DV2_ImagineContinues(i + 1) THEN "imagine" ELSE "predict"
    /\ UNCHANGED <<algo, sequence_length, batch_size, horizon, is_first,
                   posterior, recurrent_states, posteriors, posteriors_logits,
                   priors_logits, returned>>
    /\ UNCHANGED numvars
    /\ UNCHANGED <<sidevars, optvars>>

\* Lines 278-374: predictions, lambda values, discount, then the actor
\* update (loss at line 344, backward at 345, step at 350) and the critic
\* update (loss at 361, backward at 362, step at 367), for policies whose
\* entropy is implemented.  The numerical part is modelled under SpecReturn
\* and SpecObjective.
DV2_BehaviourUpdate ==
    /\ algo = "dreamer_v2" /\ pc = "predict"
    /\ \E actor_norm, critic_norm \in GradNorms :
           LET actor_grads == ClipGradients("actor", actor_norm)["actor"]
               critic_grads == ClipGradients("critic", critic_norm)["critic"]
           IN  IF Bound(actor_grads)
               THEN /\ trace' = trace \o UpdateEvents("actor") \o UpdateEvents("critic")
                    /\ param_version' = [param_version EXCEPT !["actor"] = @ + 1,
                                                              !["critic"] = @ + 1]
                    /\ grads' = [grads EXCEPT !["actor"] = actor_grads,
                                              !["critic"] = critic_grads]
                    /\ aggregator' =
                           (aggregator \o <<<<"Grads/actor", actor_grads>>>>)
                               \o (IF Bound(critic_grads)
                                    THEN <<<<"Grads/critic", critic_grads>>>>
                                    ELSE <<>>)
                    /\ pc' = IF Bound(critic_grads) THEN "done" ELSE "raised"
               ELSE /\ trace' = trace \o UpdateEvents("actor")
                    /\ param_version' = Stepped("actor")
                    /\ UNCHANGED <<grads, aggregator>>
                    /\ pc' = "raised"
    /\ UNCHANGED clip_gradients
    /\ UNCHANGED <<algo, i, sequence_length, batch_size, horizon, is_first,
                   recurrent_state, posterior, recurrent_states, posteriors,
                   posteriors_logits, priors_logits, returned, rng, dynamic_calls, imagine_steps,
                   imagined_prior, imagined_latent_state,
                   imagined_trajectories, imagined_actions, called>>
    /\ UNCHANGED numvars
    /\ UNCHANGED <<objvars, livevars, mainvars>>

\* ------------------------------------- dreamer_v1: the dynamic learning loop
\* The training loop of dreamer_v1/dreamer_v1.py that drives RSSM.dynamic:
\* zero state, then one stepper call per timestep of the window, the returned
\* recurrent state and posterior carried to the next call.
DV1_TrainStart ==
    /\ algo = "dreamer_v1" /\ pc = "start"
    /\ recurrent_state' = [b \in Batch |-> Zero]
    /\ posterior' = [b \in Batch |-> Zero]
    /\ recurrent_states' = EmptyTB
    /\ priors_logits' = EmptyTB
    /\ posteriors' = EmptyTB
    /\ posteriors_logits' = EmptyTB
    /\ i' = 0
    /\ pc' = "dynamic"
    /\ UNCHANGED <<algo, sequence_length, batch_size, horizon, is_first, returned,
                   rng, dynamic_calls, imagine_steps, imagined_prior, imagined_latent_state,
                   imagined_trajectories, imagined_actions, called>>
    /\ UNCHANGED numvars
    /\ UNCHANGED <<sidevars, optvars>>

DV1_DynamicStep ==
    /\ algo = "dreamer_v1" /\ pc = "dynamic"
    /\ LET ret == [b \in Batch |->
                      RSSM_dynamic(posterior[b], recurrent_state[b], Action(i, b),
                                   EmbeddedObs(i, b), rng, b)]
       IN  /\ returned' = ret
           /\ recurrent_state' = [b \in Batch |-> ret[b][1]]
           /\ posterior' = [b \in Batch |-> ret[b][2]]
           /\ recurrent_states' = [recurrent_states EXCEPT ![i] = recurrent_state']
           /\ posteriors' = [posteriors EXCEPT ![i] = posterior']
           /\ posteriors_logits' = [posteriors_logits EXCEPT
                                       ![i] = [b \in Batch |-> ret[b][4]]]
           /\ priors_logits' = [priors_logits EXCEPT
                                   ![i] = [b \in Batch |-> ret[b][5]]]
    /\ rng' = rng + 2
    /\ dynamic_calls' = dynamic_calls + 1
    /\ UNCHANGED imagine_steps
    /\ i' = i + 1
    /\ pc' = IF i + 1 < sequence_length THEN "dynamic" ELSE "done"
    /\ UNCHANGED <<algo, sequence_length, batch_size, horizon, is_first,
                   imagined_prior, imagined_latent_state,
                   imagined_trajectories, imagined_actions, called>>
    /\ UNCHANGED numvars
    /\ UNCHANGED <<sidevars, optvars>>

\* ------------------------------------------------------ p2e.py: train
\* Lines 58-92.  posterior is the loop variable stochastic_state.
P2E_TrainStart ==
    /\ algo = "p2e" /\ pc = "start"
    /\ recurrent_state' = [b \in Batch |-> Zero]
    /\ posterior' = [b \in Batch |-> Zero]
    /\ recurrent_states' = EmptyTB
    /\ priors_logits' = EmptyTB
    /\ posteriors' = EmptyTB
    /\ posteriors_logits' = EmptyTB
    /\ i' = 0
    /\ pc' = "dynamic"
    /\ UNCHANGED <<algo, sequence_length, batch_size, horizon, is_first, returned,
                   rng, dynamic_calls, imagine_steps, imagined_prior, imagined_latent_state,
                   imagined_trajectories, imagined_actions, called>>
    /\ UNCHANGED numvars
    /\ UNCHANGED <<sidevars, optvars>>

\* Line 98: the four names the returned tuple is bound to.  Binding a tuple
\* of another length raises ValueError before any name is assigned.
P2E_DynamicBind(ret) ==
    IF Len(ret) = 4
    THEN [raised |-> FALSE, state_mean_std |-> ret[1], recurrent_state |-> ret[2],
          stochastic_state |-> ret[3], pred_state_mean_std |-> ret[4]]
    ELSE [raised |-> TRUE]

\* Lines 94-106: one iteration of the dynamic learning loop.
P2E_DynamicStep ==
    /\ algo = "p2e" /\ pc = "dynamic"
    /\ LET ret == [b \in Batch |->
                      RSSM_dynamic(posterior[b], recurrent_state[b], Action(i, b),
                                   EmbeddedObs(i, b), rng, b)]
           bound == [b \in Batch |-> P2E_DynamicBind(ret[b])]
       IN  /\ returned' = ret
           /\ IF \E b \in Batch : bound[b].raised
              THEN /\ pc' = "raised"
                   /\ UNCHANGED <<i, recurrent_state, posterior, recurrent_states,
                                  posteriors, posteriors_logits, priors_logits>>
              ELSE /\ recurrent_state' = [b \in Batch |-> bound[b].recurrent_state]
                   /\ posterior' = [b \in Batch |-> bound[b].stochastic_state]
                   /\ recurrent_states' = [recurrent_states EXCEPT ![i] = recurrent_state']
                   /\ posteriors' = [posteriors EXCEPT ![i] = posterior']
                   /\ posteriors_logits' =
                          [posteriors_logits EXCEPT
                              ![i] = [b \in Batch |-> bound[b].state_mean_std]]
                   /\ priors_logits' =
                          [priors_logits EXCEPT
                              ![i] = [b \in Batch |-> bound[b].pred_state_mean_std]]
                   /\ i' = i + 1
                   /\ pc' = IF i + 1 < sequence_length THEN "dynamic" ELSE "world"
    /\ rng' = rng + 2
    /\ dynamic_calls' = dynamic_calls + 1
    /\ UNCHANGED imagine_steps
    /\ UNCHANGED <<algo, sequence_length, batch_size, horizon, is_first,
                   imagined_prior, imagined_latent_state,
                   imagined_trajectories, imagined_actions, called>>
    /\ UNCHANGED numvars
    /\ UNCHANGED <<sidevars, optvars>>

\* ------------------------------------------------------------------- Spec
Next ==
    \/ DV2_TrainStart
    \/ DV2_DynamicStep
    \/ DV2_WorldModelUpdate
    \/ DV2_ImagineStart
    \/ DV2_ImagineStep
    \/ DV2_BehaviourUpdate
    \/ DV1_TrainStart
    \/ DV1_DynamicStep
    \/ P2E_TrainStart
    \/ P2E_DynamicStep

Spec == Init /\ [][Next]_vars

\* =================================================== the numerical part
\* Lines 278-303 of dreamer_v2.py compute, from
\* the predictions on the imagined trajectories, the lambda values and the
\* discount.  A tensor of this part is the column of one trajectory, a
\* function from its row indices 0 .. n-1 to exact rationals <<num, den>>
\* (den > 0, lowest terms) in place of float32.
RECURSIVE GCD(_, _)
GCD(a, b) == IF b = 0 THEN a ELSE GCD(b, a % b)
Abs(x) == IF x < 0 THEN -x ELSE x
Rat(n, d) == LET g == GCD(Abs(n), d) IN <<n \div g, d \div g>>
RZero == <<0, 1>>
ROne == <<1, 1>>
RAdd(x, y) ==
    LET l == (x[2] \div GCD(x[2], y[2])) * y[2]
    IN  Rat(x[1] * (l \div x[2]) + y[1] * (l \div y[2]), l)
RSub(x, y) == RAdd(x, <<-y[1], y[2]>>)
RMul(x, y) ==
    LET g1 == GCD(Abs(x[1]), y[2])
        g2 == GCD(Abs(y[1]), x[2])
    IN  Rat((x[1] \div g1) * (y[1] \div g2), (x[2] \div g2) * (y[2] \div g1))

\* Rows, x[lo:hi], torch.cat along dim 0, torch.cumprod along dim 0.
Rows(x) == Cardinality(DOMAIN x)
Slice(x, lo, hi) == [j \in 0 .. (hi - lo - 1) |-> x[lo + j]]
CatRows(x, y) ==
    [j \in 0 .. (Rows(x) + Rows(y) - 1) |->
        IF j < Rows(x) THEN x[j] ELSE y[j - Rows(x)]]
RECURSIVE CumProdAt(_, _)
CumProdAt(x, t) == IF t = 0 THEN x[0] ELSE RMul(CumProdAt(x, t - 1), x[t])
CumProd(x) == [t \in DOMAIN x |-> CumProdAt(x, t)]
OnesLike(x) == [j \in DOMAIN x |-> ROne]
Times(x, c) == [j \in DOMAIN x |-> RMul(x[j], c)]

\* compute_lambda_values, the Return Estimator: lambda_value_h is the
\* bootstrap, and for t = h-1 down to 0
\*   lambda_value_t = reward_t + continuation_t *
\*       ((1 - lambda) * value_{t+1} + lambda * lambda_value_{t+1})
\* where value_h is the bootstrap too.  It returns the h values of t = 0..h-1.
RECURSIVE LambdaValueAt(_, _, _, _, _, _, _)
LambdaValueAt(t, rewards, values, conts, bootstrap, h, lam) ==
    LET next_value == IF t + 1 = h THEN bootstrap ELSE values[t + 1]
        next_lambda == IF t + 1 = h THEN bootstrap
                       ELSE LambdaValueAt(t + 1, rewards, values, conts, bootstrap, h, lam)
    IN  RAdd(rewards[t],
             RMul(conts[t], RAdd(RMul(RSub(ROne, lam), next_value),
                                 RMul(lam, next_lambda))))
compute_lambda_values(rewards, values, conts, bootstrap, h, lam) ==
    [t \in 0 .. (h - 1) |-> LambdaValueAt(t, rewards, values, conts, bootstrap, h, lam)]

\* What the predictors and the configuration are drawn from: any column of
\* rewards 0 and 1 with n rows, the columns of values in which at most one
\* row is 5 and the others are 0, the columns of continuation probabilities
\* in which at most one row is 1/2 and the others are 1.
OneRow(n, k, x, y) == [j \in 0 .. (n - 1) |-> IF j = k THEN x ELSE y]
Rewards(n) == [0 .. (n - 1) -> {RZero, ROne}]
Values(n) == {OneRow(n, k, <<5, 1>>, RZero) : k \in 0 .. n}
ContinueProbs(n) == {OneRow(n, k, <<1, 2>>, ROne) : k \in 0 .. n}
Gammas == {ROne, <<99, 100>>}
Lambdas == {RZero, ROne}

\* The state at line 278 of dreamer_v2.py, the imagination over; horizon is
\* args.horizon.  dones is read at line 285 only.  (train of p2e.py never
\* gets to its lines 218-290: it raises at line 98.)
InitReturn ==
    /\ algo = "dreamer_v2"
    /\ pc = "predict"
    /\ sequence_length = MaxSeqLen
    /\ batch_size = MaxBatch
    /\ horizon \in 1 .. MaxReturnHorizon
    /\ is_first = [t \in Steps |-> [b \in Batch |-> 0]]
    /\ recurrent_states = None
    /\ posteriors = None
    /\ NoTrain
    /\ lmbda \in Lambdas
    /\ gamma \in Gammas
    /\ use_continues \in BOOLEAN
    /\ dones \in IF use_continues THEN {0, 1} ELSE {0}
    /\ predicted_rewards = None /\ predicted_target_values = None
    /\ continues = None /\ lambda_values = None /\ discount = None
    /\ NoObjective
    /\ NoSteps
    /\ ClippedRun
    /\ NoRecurrent
    /\ NoSchedule
    /\ NoBuffer
    /\ NoLive

\* ---- dreamer_v2.py
\* Lines 281-288: continues from the continue model's means, or gamma.
DV2_Continues(means, rewards) ==
    IF use_continues
    THEN LET true_done == [j \in {0} |-> RMul(<<1 - dones, 1>>, gamma)]
         IN  CatRows(true_done, Slice(means, 1, Rows(means)))
    ELSE Times(OnesLike(rewards), gamma)

\* Lines 279-288: the predictions on the horizon + 1 imagined states.
DV2_Predict ==
    /\ algo = "dreamer_v2" /\ pc = "predict"
    /\ predicted_target_values' \in Values(horizon + 1)
    /\ predicted_rewards' \in Rewards(horizon + 1)
    /\ \E means \in IF use_continues THEN ContinueProbs(horizon + 1)
                                     ELSE {None} :
           continues' = DV2_Continues(means, predicted_rewards')
    /\ pc' = "lambda"
    /\ UNCHANGED <<algo, horizon, lmbda, gamma, use_continues, dones,
                   lambda_values, discount, trainvars>>
    /\ UNCHANGED <<sidevars, optvars>>

\* A bootstrap that is the value of the state before the last one.
DV2_Bootstrap_Early == predicted_target_values[horizon - 1]
\* Rewards taken one row late.
DV2_LambdaRewards_Late == Slice(predicted_rewards, 1, Rows(predicted_rewards))

\* Lines 292-299: the arguments of compute_lambda_values.
DV2_LambdaRewards == Slice(predicted_rewards, 0, Rows(predicted_rewards) - 1)
DV2_LambdaValues == Slice(predicted_target_values, 0, Rows(predicted_target_values) - 1)
DV2_LambdaContinues == Slice(continues, 0, Rows(continues) - 1)
DV2_Bootstrap == predicted_target_values[Rows(predicted_target_values) - 1]

\* Lines 292-299.
DV2_ComputeLambda ==
    /\ algo = "dreamer_v2" /\ pc = "lambda"
    /\ lambda_values' = compute_lambda_values(DV2_LambdaRewards, DV2_LambdaValues,
                            DV2_LambdaContinues, DV2_Bootstrap, horizon, lmbda)
    /\ pc' = "discount"
    /\ UNCHANGED <<algo, horizon, lmbda, gamma, use_continues, dones,
                   predicted_rewards, predicted_target_values, continues,
                   discount, trainvars>>
    /\ UNCHANGED <<sidevars, optvars>>

\* A cumulative product that starts with the first continuation.
DV2_DiscountFactors_NoOne == continues

\* Line 303: what the cumulative product is taken of.
DV2_DiscountFactors ==
    CatRows(OnesLike(Slice(continues, 0, 1)), Slice(continues, 0, Rows(continues) - 1))

\* Lines 302-303.
DV2_Discount ==
    /\ algo = "dreamer_v2" /\ pc = "discount"
    /\ discount' = CumProd(DV2_DiscountFactors)
    /\ pc' = "actor"
    /\ UNCHANGED <<algo, horizon, lmbda, gamma, use_continues, dones,
                   predicted_rewards, predicted_target_values, continues,
                   lambda_values, trainvars>>
    /\ UNCHANGED <<sidevars, optvars>>

NextReturn ==
    \/ DV2_Predict
    \/ DV2_ComputeLambda
    \/ DV2_Discount

SpecReturn == InitReturn /\ [][NextReturn]_vars

\* =========================================== the actor and critic objectives
\* Lines 305-374 of dreamer_v2.py, for one imagined trajectory.  A row of a
\* tensor is kept with the index it has in the tensor it was sliced from:
\* [at |-> index, val |-> value].
Tag(x) == [j \in DOMAIN x |-> [at |-> j, val |-> x[j]]]
\* The rows of a tensor of n rows whose values the model does not compute
\* (imagined states, imagined actions, network outputs on them).
RowsOf(n) == [j \in 0 .. (n - 1) |-> [at |-> j]]

\* -torch.mean of a column (nan on an empty column).
RECURSIVE SumTo(_, _)
SumTo(x, n) == IF n = 0 THEN RZero ELSE RAdd(SumTo(x, n - 1), x[n - 1].val)
NegMean(x) ==
    IF Rows(x) = 0 THEN <<"nan">>
    ELSE LET total == SumTo(x, Rows(x)) IN Rat(-total[1], total[2] * Rows(x))

\* What the configuration and the policies' log-probabilities are drawn from.
Mixes == {RZero, <<1, 2>>, ROne}
ObjectiveGammas == {ROne, <<1, 2>>}
LogProbs(n) == {OneRow(n, k, <<-2, 1>>, <<-1, 1>>) : k \in 0 .. n}
\* actor_ent_coef * the entropy of a policy, when it is implemented.
EntropyBonus == <<1, 4>>

\* The state at line 305 of dreamer_v2.py: predictions with reward 1 on
\* every row, the lambda values and the discount computed from them by
\* lines 278-303.  args.clip_gradients is positive
\* (a training call gets past dreamer_v2.py:207 only then).
InitObjective ==
    /\ algo = "dreamer_v2"
    /\ pc = "actor"
    /\ sequence_length \in 1 .. MaxSeqLen
    /\ batch_size = MaxBatch
    /\ horizon \in 1 .. MaxReturnHorizon
    /\ is_first = [t \in Steps |-> [b \in Batch |-> 0]]
    /\ recurrent_states = None
    /\ posteriors = None
    /\ NoTrain
    /\ lmbda \in Lambdas
    /\ gamma \in ObjectiveGammas
    /\ use_continues \in BOOLEAN
    /\ dones = 0
    /\ predicted_rewards = [j \in 0 .. horizon |-> ROne]
    /\ predicted_target_values \in Values(Rows(predicted_rewards))
    /\ \E means \in IF use_continues THEN ContinueProbs(ImaginedRows) ELSE {None} :
           continues = DV2_Continues(means, predicted_rewards)
    /\ lambda_values = compute_lambda_values(DV2_LambdaRewards, DV2_LambdaValues,
                           DV2_LambdaContinues, DV2_Bootstrap, horizon, lmbda)
    /\ discount = CumProd(DV2_DiscountFactors)
    /\ objective_mix \in Mixes
    /\ has_entropy \in BOOLEAN
    /\ log_probs = None /\ objective = None /\ entropy = None
    /\ policy_loss = None /\ value_loss = None
    /\ NoSteps
    /\ ClippedRun
    /\ NoRecurrent
    /\ NoSchedule
    /\ NoBuffer
    /\ NoLive

\* ---- dreamer_v2.py
\* Line 322: the imagined states the policies are evaluated at.
DV2_PolicyStates == Slice(RowsOf(ImaginedRows), 0, ImaginedRows - 2)
\* Line 325.
DV2_Dynamics == Slice(Tag(lambda_values), 1, Rows(lambda_values))
\* Line 328: the baseline values of the advantage.
DV2_Baseline == Slice(Tag(predicted_target_values), 0, Rows(predicted_target_values) - 2)
\* Line 332 taken from the placeholder action on: imgnd_act[:-2].
DV2_ActedActions_FromPlaceholder == Slice(RowsOf(ImaginedRows), 0, ImaginedRows - 2)

\* Line 332: the imagined actions whose log-probability is taken.
DV2_ActedActions == Slice(RowsOf(ImaginedRows), 1, ImaginedRows - 1)

\* Line 339 with the weights of the two estimators exchanged.
DV2_Mix_Swapped(reinforce, dynamics) ==
    RAdd(RMul(objective_mix, dynamics), RMul(RSub(ROne, objective_mix), reinforce))

\* Line 339: args.objective_mix * reinforce + (1 - args.objective_mix) * dynamics.
DV2_Mix(reinforce, dynamics) ==
    RAdd(RMul(objective_mix, reinforce), RMul(RSub(ROne, objective_mix), dynamics))

\* Lines 320-339: policies, dynamics, advantage, reinforce and the objective.
\* The advantage is detached (line 328).
DV2_ActorObjective ==
    /\ algo = "dreamer_v2" /\ pc = "actor"
    /\ log_probs' \in LogProbs(Rows(DV2_PolicyStates))
    /\ objective' =
           [j \in DOMAIN DV2_Dynamics |->
               LET advantage == RSub(DV2_Dynamics[j].val, DV2_Baseline[j].val)
                   reinforce == RMul(log_probs'[j], advantage)
               IN  [policy |-> DV2_PolicyStates[j].at,
                    action |-> DV2_ActedActions[j].at,
                    lambda_value |-> DV2_Dynamics[j].at,
                    baseline |-> DV2_Baseline[j].at,
                    advantage_detached |-> TRUE,
                    reinforce |-> reinforce,
                    dynamics |-> DV2_Dynamics[j].val,
                    val |-> DV2_Mix(reinforce, DV2_Dynamics[j].val)]]
    /\ pc' = "entropy"
    /\ UNCHANGED <<algo, horizon, numvars, trainvars, objective_mix, has_entropy,
                   entropy, policy_loss, value_loss, optvars>>
    /\ UNCHANGED <<livevars, restvars>>

\* Lines 340-343: the entropy bonus, zero when entropy() raises
\* NotImplementedError.
DV2_ActorEntropy ==
    /\ algo = "dreamer_v2" /\ pc = "entropy"
    /\ entropy' = IF has_entropy
                  THEN [j \in DOMAIN DV2_PolicyStates |-> EntropyBonus]
                  ELSE [j \in DOMAIN objective |-> RZero]
    /\ pc' = "policy_loss"
    /\ UNCHANGED <<algo, horizon, numvars, trainvars, objective_mix, has_entropy,
                   log_probs, objective, policy_loss, value_loss, optvars>>
    /\ UNCHANGED <<livevars, restvars>>

\* Line 344: the weights of the policy loss.
DV2_PolicyDiscount == Slice(Tag(discount), 0, Rows(discount) - 2)

\* Shapes of tensors and the broadcasting of an elementwise operation: the
\* shapes are aligned at their last dimension and every pair of sizes must
\* be equal or contain a 1 (RuntimeError otherwise).
Unsqueeze(shape) == Append(shape, 1)
PadTo(shape, n) ==
    [k \in 1 .. n |-> IF k <= n - Len(shape) THEN 1 ELSE shape[k - (n - Len(shape))]]
MaxOf(a, b) == IF a >= b THEN a ELSE b
ShapesBroadcast(s, t) ==
    LET n == MaxOf(Len(s), Len(t))
    IN  \A k \in 1 .. n :
            \/ PadTo(s, n)[k] = PadTo(t, n)[k]
            \/ PadTo(s, n)[k] = 1
            \/ PadTo(t, n)[k] = 1
BroadcastShape(s, t) ==
    LET n == MaxOf(Len(s), Len(t))
    IN  [k \in 1 .. n |-> IF PadTo(s, n)[k] = 1 THEN PadTo(t, n)[k] ELSE PadTo(s, n)[k]]

\* Lines 225-228: the imagination starts from every state of the batch,
\* flattened into one dimension.
ImaginedBatch == sequence_length * batch_size
\* Lines 329-339: a log-probability per policy state and trajectory,
\* unsqueezed, times the advantage.
ObjectiveShape == <<Rows(objective), ImaginedBatch, 1>>
\* Lines 341 and 343: the summed entropies have no trailing dimension,
\* torch.zeros_like(objective) has the one of the objective.
EntropyShape == IF has_entropy THEN <<Rows(objective), ImaginedBatch>> ELSE ObjectiveShape
\* Line 344: discount[:-2].
PolicyDiscountShape == <<Rows(DV2_PolicyDiscount), ImaginedBatch, 1>>

\* Lines 344-352: the policy loss, its backward pass, the clipping of the
\* actor's gradients, the actor step and the metric update of line 351.
\* When the sum broadcasts to more dimensions than the objective has, each
\* term is repeated equally often and the mean is that of the terms.
DV2_ActorStep ==
    /\ algo = "dreamer_v2" /\ pc = "policy_loss"
    /\ IF /\ ShapesBroadcast(ObjectiveShape, Unsqueeze(EntropyShape))
          /\ ShapesBroadcast(PolicyDiscountShape,
                             BroadcastShape(ObjectiveShape, Unsqueeze(EntropyShape)))
       THEN /\ LET terms == [j \in DOMAIN objective |->
                                [discount |-> DV2_PolicyDiscount[j].at,
                                 val |-> RMul(DV2_PolicyDiscount[j].val,
                                              RAdd(objective[j].val, entropy[j]))]]
               IN  policy_loss' = [terms |-> terms, loss |-> NegMean(terms)]
            /\ trace' = trace \o UpdateEvents("actor")
            /\ param_version' = Stepped("actor")
            /\ \E norm \in GradNorms : grads' = ClipGradients("actor", norm)
            /\ aggregator' = AggregatorUpdate("Grads/actor", grads'["actor"])
            /\ pc' = IF Bound(grads'["actor"]) THEN "critic" ELSE "raised"
       ELSE /\ policy_loss' = <<"RuntimeError">>
            /\ pc' = "raised"
            /\ UNCHANGED <<optvars, grads, aggregator>>
    /\ UNCHANGED <<algo, horizon, numvars, trainvars, objective_mix, has_entropy,
                   log_probs, objective, entropy, value_loss>>
    /\ UNCHANGED <<livevars, mainvars, clip_gradients>>

\* A critic evaluated on the imagined states without the seed state.
DV2_CriticStates_NoFirst == Slice(RowsOf(ImaginedRows), 1, ImaginedRows - 1)

\* Line 357: the imagined states the critic is evaluated at.
DV2_CriticStates == Slice(RowsOf(ImaginedRows), 0, ImaginedRows - 1)
\* Line 361: the weights and the targets of the value loss.
DV2_ValueDiscount == Slice(Tag(discount), 0, Rows(discount) - 1)
DV2_ValueTargets == Tag(lambda_values)

\* Lines 354-374: the value loss -mean(discount * qv.log_prob(lambda_values)),
\* its backward pass, the clipping of the critic's gradients, the critic step
\* and the metric update of line 368.  The lambda values are detached.
DV2_CriticUpdate ==
    /\ algo = "dreamer_v2" /\ pc = "critic"
    /\ value_loss' =
           [t \in DOMAIN DV2_CriticStates |->
               [state |-> DV2_CriticStates[t].at,
                lambda_value |-> DV2_ValueTargets[t].at,
                target |-> DV2_ValueTargets[t].val,
                target_detached |-> TRUE,
                discount |-> DV2_ValueDiscount[t].at,
                weight |-> DV2_ValueDiscount[t].val]]
    /\ trace' = trace \o UpdateEvents("critic")
    /\ param_version' = Stepped("critic")
    /\ \E norm \in GradNorms : grads' = ClipGradients("critic", norm)
    /\ aggregator' = AggregatorUpdate("Grads/critic", grads'["critic"])
    /\ pc' = IF Bound(grads'["critic"]) THEN "done" ELSE "raised"
    /\ UNCHANGED <<algo, horizon, numvars, trainvars, objective_mix, has_entropy,
                   log_probs, objective, entropy, policy_loss>>
    /\ UNCHANGED <<livevars, mainvars, clip_gradients>>

NextObjective ==
    \/ DV2_ActorObjective
    \/ DV2_ActorEntropy
    \/ DV2_ActorStep
    \/ DV2_CriticUpdate

SpecObjective == InitObjective /\ [][NextObjective]_vars

\* ============================ construction and the live rollout of main
\* build_models of dreamer_v1/agent.py, the player of the same file and the
\* rollout loop of main in dreamer_v2.py (lines 603-760).  build_models is
\* called as its signature says (a DreamerV1 run) and as main of p2e.py
\* calls it, which ends that run before its rollout loop.  The build_models
\* and the player of dreamer_v2/agent.py are not modelled apart: a DreamerV2
\* run starts with its models built and plays with the player of agent.py.

\* The largest number of environments and of iterations of the rollout loop.
MaxEnvs == 2
MaxLiveSteps == 2

\* The order of the rationals.
RLeq(a, b) == a[1] * b[2] <= b[1] * a[2]
RMax(a, b) == IF RLeq(a, b) THEN b ELSE a

\* The sorted list of a set of integers (Tensor.nonzero()[0].tolist()).
RECURSIVE SortedList(_)
SortedList(S) ==
    IF S = {} THEN <<>>
    ELSE LET least == CHOOSE x \in S : \A y \in S : x <= y
         IN  <<least>> \o SortedList(S \ {least})
ElementsOf(list) == {list[k] : k \in 1 .. Len(list)}

\* ---- the hyper-parameters
\* Names looked up in torch.nn: an activation, a module that is no
\* activation, and a name torch.nn does not have.
NnActivations == {"ELU"}
NnAttributes == {"ELU", "Linear"}
ActNames == {"ELU", "Linear", "Elu"}
\* Sizes, and the values of lmbda and kl_balancing_alpha.
Sizes == {-1, 0, 1}
Fractions == {<<-1, 1>>, <<1, 2>>, <<2, 1>>}
\* args.min_std, and the floor compute_stochastic_state applies when it is
\* given none.
DefaultMinStd == <<1, 10>>
MinStds == {DefaultMinStd, <<1, 2>>}
\* The raw standard deviations a network may output.
RawStds == {RZero, ROne}

\* args.checkpoint_path: None, or the path of a checkpoint, and the state
\* fabric.load reads from it: a checkpoint saved at global_step 1.
NoCheckpoint == [is_none |-> TRUE, value |-> ""]
Checkpoint == [is_none |-> FALSE, value |-> "ckpt_1.ckpt"]
CheckpointState == [global_step |-> 1]
\* args.expl_amount: none, and the default.
ExplAmounts == {RZero, <<3, 10>>}
\* The environment ids that contain "minedojo".
MinedojoIds == {"minedojo_open-ended"}

ValidArgs ==
    [cnn_channels_multiplier |-> 1, dense_units |-> 1, cnn_act |-> "ELU",
     dense_act |-> "ELU", stochastic_size |-> 1, recurrent_state_size |-> 1,
     lmbda |-> <<1, 2>>, kl_balancing_alpha |-> <<1, 2>>,
     min_std |-> DefaultMinStd, num_envs |-> 1, learning_starts |-> 0,
     train_every |-> 1, checkpoint_path |-> NoCheckpoint, checkpoint_buffer |-> FALSE,
     env_id |-> "dmc_walker_walk", use_continues |-> FALSE, expl_amount |-> <<3, 10>>]
\* The hyper-parameters build_models is given: the valid ones with at most
\* one of them replaced.
BuildArgs ==
    {[ValidArgs EXCEPT !.cnn_channels_multiplier = v] : v \in Sizes}
    \cup {[ValidArgs EXCEPT !.dense_units = v] : v \in Sizes}
    \cup {[ValidArgs EXCEPT !.stochastic_size = v] : v \in Sizes}
    \cup {[ValidArgs EXCEPT !.recurrent_state_size = v] : v \in Sizes}
    \cup {[ValidArgs EXCEPT !.cnn_act = v] : v \in ActNames}
    \cup {[ValidArgs EXCEPT !.dense_act = v] : v \in ActNames}
    \cup {[ValidArgs EXCEPT !.lmbda = v] : v \in Fractions}
    \cup {[ValidArgs EXCEPT !.kl_balancing_alpha = v] : v \in Fractions}
    \cup {[ValidArgs EXCEPT !.min_std = v] : v \in MinStds}
    \cup {[ValidArgs EXCEPT !.learning_starts = v] : v \in 0 .. 1}
    \cup {[ValidArgs EXCEPT !.use_continues = v] : v \in BOOLEAN}
\* The hyper-parameters of a run of dreamer_v2.py whose models are built,
\* with world_size = action_repeat = 1, no dry run and no decay of the
\* exploration amount (args.expl_decay unset, args.expl_min equal to
\* args.expl_amount, so that player.expl_amount stays args.expl_amount): a
\* fresh run, a run that trains every second step, a run that explores
\* without noise, a run with a continue model, a run resumed from a
\* checkpoint with and without its buffer, and a run on a MineDojo
\* environment.
FreshArgs ==
    {[ValidArgs EXCEPT !.num_envs = n, !.min_std = s, !.learning_starts = l] :
        n \in 1 .. MaxEnvs, s \in MinStds, l \in 0 .. 1}
RolloutArgs ==
    FreshArgs
        \cup {[ValidArgs EXCEPT !.num_envs = n, !.learning_starts = 1, !.train_every = 2 * n] :
                  n \in 1 .. MaxEnvs}
        \cup {[ValidArgs EXCEPT !.num_envs = n, !.expl_amount = x] :
                  n \in 1 .. MaxEnvs, x \in ExplAmounts}
        \cup {[ValidArgs EXCEPT !.learning_starts = 1, !.checkpoint_path = Checkpoint,
                                !.checkpoint_buffer = b] : b \in BOOLEAN}
        \cup {[ValidArgs EXCEPT !.use_continues = TRUE],
              [ValidArgs EXCEPT !.learning_starts = 1, !.env_id = "minedojo_open-ended"]}

\* ---- build_models
AllModels == {"encoder", "recurrent_model", "representation_model", "transition_model",
              "observation_model", "reward_model", "continue_model", "actor", "critic"}
\* Lines 460-473 and 526: the continue model is built when args.use_continues
\* is set, and is None otherwise.
Built(use_continues_arg) ==
    [error |-> "none", message |-> "",
     built |-> IF use_continues_arg THEN AllModels ELSE AllModels \ {"continue_model"}]
Failure(error, message, built) == [error |-> error, message |-> message, built |-> built]

\* cnn_keys and mlp_keys: the kinds of observation the encoder is given, at
\* least one.
ObsKinds == (SUBSET {"cnn", "mlp"}) \ {{}}

\* Lines 353-370: the checks build_models makes before it builds anything.
BuildChecks(a) ==
    IF a.cnn_channels_multiplier <= 0
    THEN {Failure("ValueError", "cnn_channels_multiplier must be greater than zero", {})}
    ELSE IF a.dense_units <= 0
    THEN {Failure("ValueError", "dense_units must be greater than zero", {})}
    ELSE IF a.cnn_act \notin NnAttributes
    THEN {Failure("ValueError", "Invalid value for cnn_act", {})}
    ELSE IF a.dense_act \notin NnAttributes
    THEN {Failure("ValueError", "Invalid value for dense_act", {})}
    ELSE {}

\* Lines 404-531, from the representation model on.  An MLP builds its first
\* linear layer, then instantiates the activation (TypeError for a module
\* that is no activation, line 405), then builds its output layer, of size
\* 2 * stochastic_size (RuntimeError for a negative size).  The messages are
\* torch's and name no hyper-parameter.  lmbda and kl_balancing_alpha are not
\* read.
BuildAfterRecurrent(a) ==
    IF a.dense_act \notin NnActivations
    THEN {Failure("TypeError", "", {"encoder", "recurrent_model"})}
    ELSE IF a.stochastic_size < 0
    THEN {Failure("RuntimeError", "", {"encoder", "recurrent_model"})}
    ELSE {Built(a.use_continues)}

\* Lines 372-531: the models are built in the order of AllModels.  The cnn
\* encoder (line 379) instantiates cnn_act and the mlp encoder (line 390)
\* dense_act, each when the observations have its kind; the recurrent model
\* (line 401) builds a linear layer of recurrent_state_size outputs
\* (RuntimeError for a negative size) and a GRU, which raises ValueError for
\* a size of 0 in the versions of torch that check it.
BuildLayers(a, kinds) ==
    IF \/ "cnn" \in kinds /\ a.cnn_act \notin NnActivations
       \/ "mlp" \in kinds /\ a.dense_act \notin NnActivations
    THEN {Failure("TypeError", "", {})}
    ELSE IF a.recurrent_state_size < 0
    THEN {Failure("RuntimeError", "", {"encoder"})}
    ELSE (IF a.recurrent_state_size = 0
          THEN {Failure("ValueError", "", {"encoder"})}
          ELSE {})
             \cup BuildAfterRecurrent(a)

\* build_models: what a call may end with.
build_models(a, kinds) ==
    IF BuildChecks(a) # {} THEN BuildChecks(a) ELSE BuildLayers(a, kinds)

\* A call of build_models (agent.py:318-531) with the arguments its
\* signature names, args a DreamerV1Args.
BuildModels ==
    /\ algo = "dreamer_v1" /\ pc = "build"
    /\ \E kinds \in ObsKinds : models' \in build_models(args, kinds)
    /\ pc' = IF models'.error = "none" THEN "built" ELSE "raised"
    /\ UNCHANGED <<algo, horizon, numvars, trainvars, objvars, optvars, restvars, args,
                   player, env_dones, acted_on, stds, global_step, init_call>>

\* p2e.py:397-406 calls build_models with (fabric, action_dim,
\* observation_shape, is_continuous, args, ...): the parameter args of
\* agent.py:318-329 is bound to is_continuous, a bool, and line 353 raises
\* AttributeError whatever the hyper-parameters are.
P2E_BuildModels ==
    /\ algo = "p2e" /\ pc = "build"
    /\ models' = Failure("AttributeError",
                         "'bool' object has no attribute 'cnn_channels_multiplier'", {})
    /\ pc' = "raised"
    /\ UNCHANGED <<algo, horizon, numvars, trainvars, objvars, optvars, restvars, args,
                   player, env_dones, acted_on, stds, global_step, init_call>>

\* ---- the player
Envs == 0 .. (args.num_envs - 1)
NoneArg == [is_none |-> TRUE, envs |-> <<>>]
ListArg(list) == [is_none |-> FALSE, envs |-> list]

\* PlayerDV1.init_states with every environment zeroed, whatever is asked.
init_states_All(p, reset_envs) ==
    [actions |-> [e \in Envs |-> Zero],
     recurrent_state |-> [e \in Envs |-> Zero],
     stochastic_state |-> [e \in Envs |-> Zero]]

\* PlayerDV1.init_states (agent.py:244-259).
init_states(p, reset_envs) ==
    IF reset_envs.is_none \/ Len(reset_envs.envs) = 0
    THEN [actions |-> [e \in Envs |-> Zero],
          recurrent_state |-> [e \in Envs |-> Zero],
          stochastic_state |-> [e \in Envs |-> Zero]]
    ELSE [actions |-> [e \in Envs |->
                          IF e \in ElementsOf(reset_envs.envs) THEN Zero ELSE p.actions[e]],
          recurrent_state |-> [e \in Envs |->
                          IF e \in ElementsOf(reset_envs.envs) THEN Zero
                          ELSE p.recurrent_state[e]],
          stochastic_state |-> [e \in Envs |->
                          IF e \in ElementsOf(reset_envs.envs) THEN Zero
                          ELSE p.stochastic_state[e]]]

\* compute_stochastic_state: the standard deviation of the distribution it
\* builds from a raw one, floored at min_std.
compute_std(raw, min_std) == RMax(raw, min_std)
StdOf(raw, min_std) == [raw |-> raw, std |-> compute_std(raw, min_std)]

\* The floor the player applies: agent.py:310 passes no min_std.
PlayerMinStd == DefaultMinStd
\* The floor of the prior and of the posterior: agent.py:136, 151 pass
\* self.min_std, which build_models sets to args.min_std (line 423).
RSSMMinStd == args.min_std

\* PlayerDV1.get_greedy_action (agent.py:306-315) on the observations of
\* iteration t: the three stored values it leaves.
get_greedy_action(p, t) ==
    LET recurrent == [e \in Envs |->
                         RecurrentModel(Cat(p.stochastic_state[e], p.actions[e]),
                                        p.recurrent_state[e])]
        stochastic == [e \in Envs |->
                          Sample(DistParams(RepresentationModel(recurrent[e], EmbeddedObs(t, e))),
                                 Noise(2 * t, e))]
    IN  [actions |-> [e \in Envs |->
                         Actor(Cat(stochastic[e], recurrent[e]), Noise(2 * t + 1, e))],
         recurrent_state |-> recurrent,
         stochastic_state |-> stochastic]

\* self.expl_amount of the player: main gives it args.expl_amount
\* (dreamer_v2.py:487).
ExplAmount == args.expl_amount
\* PlayerDV1.get_exploration_action (agent.py:275-289): the greedy actions,
\* with exploration noise when expl_amount > 0 (line 278; for discrete
\* actions line 286 keeps the greedy action wherever rand < 0 fails).
get_exploration_action(p, t) ==
    LET greedy == get_greedy_action(p, t)
    IN  IF RLeq(ExplAmount, RZero) THEN greedy
        ELSE [greedy EXCEPT !.actions = [e \in Envs |-> <<"explore", greedy.actions[e]>>]]

\* ---- main
\* dreamer_v2.py:566-572, for world_size = action_repeat = 1 and no dry run.
StartStep == IF args.checkpoint_path.is_none THEN 1 ELSE CheckpointState.global_step
SingleGlobalStep == args.num_envs
TrainEvery == args.train_every \div SingleGlobalStep
LearningStarts ==
    (args.learning_starts \div SingleGlobalStep)
        + (IF ~args.checkpoint_path.is_none /\ ~args.checkpoint_buffer THEN StartStep ELSE 0)
\* dreamer_v2.py:608: whether the iteration draws a random action and leaves
\* the player alone.
RandomPhase ==
    /\ global_step <= LearningStarts
    /\ args.checkpoint_path.is_none
    /\ args.env_id \notin MinedojoIds
\* dreamer_v2.py:710: the iteration trains.
TrainsNow(steps_left) == global_step >= LearningStarts /\ steps_left <= 0

\* A rollout that never resets the player.
ResetPlayer_Never(p, done) == p

\* dreamer_v2.py:683-705: the reset of the player after an environment step
\* that reported the environments of done as done or truncated.
ResetPlayer(p, done) ==
    IF done = {} THEN p
    ELSE init_states(p, ListArg(SortedList(done)))

InitPlayer ==
    /\ algo \in Algos
    /\ IF algo = "dreamer_v2"
       THEN args \in RolloutArgs /\ pc = "player_init" /\ models = Built(args.use_continues)
       ELSE args \in BuildArgs /\ pc = "build" /\ models = None
    /\ sequence_length = MaxSeqLen
    /\ batch_size = MaxBatch
    /\ horizon = 1
    /\ is_first = [t \in Steps |-> [b \in Batch |-> 0]]
    /\ recurrent_states = None
    /\ posteriors = None
    /\ NoTrain
    /\ NoReturns
    /\ NoObjective
    /\ NoSteps
    /\ ClippedRun
    /\ NoRecurrent
    /\ step_before_training = (IF algo = "dreamer_v2" THEN TrainEvery ELSE 0)
    /\ gradient_steps = 0 /\ target_critic = 0 /\ rounds = <<>> /\ local_data = 0
    /\ NoBuffer
    /\ player = None /\ env_dones = {} /\ acted_on = None
    /\ stds = [prior |-> None, posterior |-> None, player |-> None]
    /\ global_step = 0 /\ init_call = None

\* The player is constructed (its __init__ calls init_states, agent.py:242)
\* and main calls init_states() before the loop, which starts at start_step
\* (dreamer_v2.py:603-606).
PlayerInit ==
    /\ pc = "player_init"
    /\ player' = init_states(player, NoneArg)
    /\ global_step' = StartStep
    /\ pc' = "act"
    /\ UNCHANGED <<algo, horizon, numvars, trainvars, objvars, optvars, restvars, args,
                   models, env_dones, acted_on, stds, init_call>>

\* dreamer_v2.py:607-635: the action of the iteration.
LiveAct ==
    /\ pc = "act"
    /\ IF RandomPhase
       THEN /\ acted_on' = None
            /\ UNCHANGED <<player, stds>>
       ELSE /\ acted_on' = player
            /\ player' = get_exploration_action(player, global_step)
            /\ \E raw \in RawStds :
                   stds' = [stds EXCEPT !.player = StdOf(raw, PlayerMinStd)]
    /\ pc' = "step"
    /\ UNCHANGED <<algo, horizon, numvars, trainvars, objvars, optvars, restvars, args,
                   models, env_dones, global_step, init_call>>

\* dreamer_v2.py:636-705: the environments step and the player is reset for
\* those that ended.
LiveEnvStep ==
    /\ pc = "step"
    /\ \E done \in SUBSET Envs :
           /\ env_dones' = done
           /\ player' = ResetPlayer(player, done)
    /\ pc' = "train"
    /\ UNCHANGED <<algo, horizon, numvars, trainvars, objvars, optvars, restvars, args,
                   models, acted_on, stds, global_step, init_call>>

\* dreamer_v2.py:707-760: the countdown of line 707 and the training calls
\* of the iteration, whose stepper builds a prior and a posterior
\* (agent.py:115-116); line 746 restarts the countdown.
LiveTrain ==
    /\ pc = "train"
    /\ IF TrainsNow(step_before_training - 1)
       THEN /\ \E raw_prior \in RawStds, raw_posterior \in RawStds :
                   stds' = [stds EXCEPT !.prior = StdOf(raw_prior, RSSMMinStd),
                                        !.posterior = StdOf(raw_posterior, RSSMMinStd)]
            /\ step_before_training' = TrainEvery
       ELSE /\ UNCHANGED stds
            /\ step_before_training' = step_before_training - 1
    /\ global_step' = global_step + 1
    /\ pc' = IF global_step < MaxLiveSteps THEN "act" ELSE "rolled"
    /\ UNCHANGED <<algo, horizon, numvars, trainvars, objvars, optvars, gradvars,
                   bufvars, ppovars, gradient_steps, target_critic, rounds,
                   local_data, args, models, player, env_dones, acted_on, init_call>>

\* A call of PlayerDV1.get_greedy_action on the player as the rollout left
\* it (main hands the player to test, dreamer_v2.py:790): the three stored
\* values are replaced, the actions without exploration noise.
PlayerGreedyAction ==
    /\ pc = "rolled"
    /\ player' = get_greedy_action(player, global_step)
    /\ \E raw \in RawStds :
           stds' = [stds EXCEPT !.player = StdOf(raw, PlayerMinStd)]
    /\ pc' = "done"
    /\ UNCHANGED <<algo, horizon, numvars, trainvars, objvars, optvars, restvars, args,
                   models, env_dones, acted_on, global_step, init_call>>

\* What init_states may be called with: nothing, or a list of environments.
RECURSIVE ListsOf(_, _)
ListsOf(S, n) ==
    IF n = 0 THEN {<<>>}
    ELSE ListsOf(S, n - 1) \cup {<<x>> \o l : x \in S, l \in ListsOf(S, n - 1)}
ResetArgs == {NoneArg} \cup {ListArg(l) : l \in ListsOf(Envs, args.num_envs)}

\* A call of PlayerDV1.init_states on the player as the rollout left it.
PlayerInitStates ==
    /\ pc = "rolled"
    /\ \E reset_envs \in ResetArgs :
           /\ init_call' = [reset_envs |-> reset_envs, before |-> player]
           /\ player' = init_states(player, reset_envs)
    /\ pc' = "done"
    /\ UNCHANGED <<algo, horizon, numvars, trainvars, objvars, optvars, restvars, args,
                   models, env_dones, acted_on, stds, global_step>>

NextPlayer ==
    \/ BuildModels
    \/ P2E_BuildModels
    \/ PlayerInit
    \/ LiveAct
    \/ LiveEnvStep
    \/ LiveTrain
    \/ PlayerGreedyAction
    \/ PlayerInitStates

SpecPlayer == InitPlayer /\ [][NextPlayer]_vars

\* ========================================================= SpecBuffer
\* The rollout loop of main of dreamer_v2.py as the replay buffer sees it:
\* the records main builds from step_data and reset_data and hands to
\* rb.add, with the sequential buffer and with the episode buffer.  The
\* training round of an iteration (lines 707-746) reads the buffer only and
\* is modelled under SpecSchedule.

\* The state of a run in which no training call has been made.
IdleTrain ==
    /\ sequence_length = MaxSeqLen
    /\ batch_size = MaxBatch
    /\ horizon = 1
    /\ is_first = [t \in Steps |-> [b \in Batch |-> 0]]
    /\ recurrent_states = None
    /\ posteriors = None
    /\ NoTrain
    /\ NoReturns
    /\ NoObjective
    /\ NoSteps /\ ClippedRun

\* args.buffer_type, args.num_envs and args.per_rank_sequence_length; the
\* sequential buffer does not read the sequence length when it is added to.
BufferArgs ==
    {[buffer_type |-> "sequential", num_envs |-> n,
      per_rank_sequence_length |-> MaxSeqLen] : n \in 1 .. MaxEnvs}
    \cup {[buffer_type |-> "episode", num_envs |-> n,
           per_rank_sequence_length |-> l] :
              n \in 1 .. MaxEnvs, l \in 1 .. (MaxSeqLen + 1)}

\* Lines 533-586: the buffer is empty, no record is built, the environments
\* are reset.  Indexing a TensorDict gives tensors that share the storage of
\* the indexed ones or copies of them.
InitBuffer ==
    /\ algo = "dreamer_v2"
    /\ pc = "first_record"
    /\ IdleTrain
    /\ NoRecurrent
    /\ args \in BufferArgs
    /\ models = Built(use_continues) /\ player = None /\ env_dones = {} /\ acted_on = None
    /\ stds = None /\ init_call = None
    /\ global_step = 1
    /\ rb = IF args.buffer_type = "sequential" THEN [e \in Envs |-> <<>>] ELSE <<>>
    /\ episode_steps = [e \in Envs |-> <<>>]
    /\ step_data = None
    /\ env_obs = [e \in Envs |-> <<e, 0, 0>>]
    /\ shares_storage \in IF args.buffer_type = "episode" THEN BOOLEAN ELSE {FALSE}
    /\ NoSchedule

\* Lines 594-597 (and 689-692): the row of the first observation of an
\* episode.
EpisodeStartRow(obs) ==
    [obs |-> obs, dones |-> 0, actions |-> "zeros", rewards |-> "zeros",
     is_first |-> 1]

\* rb.add of the sequential buffer: a row per environment of indices, each
\* appended to the records of its environment.
SequentialAdd(buffer, rows, indices) ==
    [e \in DOMAIN buffer |->
        IF e \in indices THEN Append(buffer[e], rows[e]) ELSE buffer[e]]
\* Lines 601-602 and 680-681: every environment's row is appended to its
\* list.
EpisodeAppend(steps, rows) == [e \in DOMAIN steps |-> Append(steps[e], rows[e])]

\* Lines 583-603: the first record of every environment.
Main_FirstRecord ==
    /\ pc = "first_record"
    /\ step_data' = [e \in Envs |-> EpisodeStartRow(env_obs[e])]
    /\ IF args.buffer_type = "sequential"
       THEN /\ rb' = SequentialAdd(rb, step_data', Envs)
            /\ UNCHANGED episode_steps
       ELSE /\ episode_steps' = EpisodeAppend(episode_steps, step_data')
            /\ UNCHANGED rb
    /\ pc' = "rollout"
    /\ UNCHANGED <<algo, horizon, numvars, trainvars, objvars, optvars, gradvars,
                   livevars, env_obs, shares_storage, schedvars, ppovars>>

\* Lines 651-664: the observation stored with a step (the final observation
\* of an episode that ended) and the one the next step starts from.
RealNextObs(e) == <<e, env_obs[e][2], env_obs[e][3] + 1>>
NextObs(e, done) == IF e \in done THEN <<e, env_obs[e][2] + 1, 0>> ELSE RealNextObs(e)

\* Lines 636 and 674-676: the row of a step; is_first is a copy of the dones
\* step_data held when the iteration began.
StepRow(e, done) ==
    [obs |-> RealNextObs(e), dones |-> IF e \in done THEN 1 ELSE 0,
     actions |-> "taken", rewards |-> "clipped",
     is_first |-> step_data[e].dones]

\* Lines 700-701 with the dones of step_data left as they are.
ResetDones_Kept(rows, done) == rows

\* Lines 700-701: the dones of step_data are zeroed for the environments that
\* ended.
ResetDones(rows, done) ==
    [e \in DOMAIN rows |-> IF e \in done THEN [rows[e] EXCEPT !.dones = 0] ELSE rows[e]]

\* Line 695: the environments whose list is handed over, in the order of
\* dones_idxes.
HandedOver(steps, done) ==
    SortedList({d \in done : Len(steps[d]) >= args.per_rank_sequence_length})

\* Lines 693-697 and 700-701 on the lists: a list that is handed over starts
\* again with the reset row; one that is not keeps its rows, and its last row
\* is the slice of step_data whose dones line 701 zeroes in place when the
\* slice shares storage.
EpisodeStepsAfter(steps, done) ==
    [e \in DOMAIN steps |->
        IF e \in ElementsOf(HandedOver(steps, done))
        THEN <<EpisodeStartRow(NextObs(e, done))>>
        ELSE IF e \in done /\ shares_storage
        THEN [steps[e] EXCEPT ![Len(steps[e])].dones = 0]
        ELSE steps[e]]

\* Lines 636-705: one iteration of the rollout loop; the environments of done
\* end their episode (terminated or truncated).
Main_EnvStep ==
    /\ pc = "rollout"
    /\ \E done \in SUBSET Envs :
           LET rows == [e \in Envs |-> StepRow(e, done)]
               reset_data == [e \in done |-> EpisodeStartRow(NextObs(e, done))]
           IN  /\ env_dones' = done
               /\ IF args.buffer_type = "sequential"
                  THEN /\ rb' = SequentialAdd(SequentialAdd(rb, rows, Envs),
                                              reset_data, done)
                       /\ UNCHANGED episode_steps
                  ELSE LET steps == EpisodeAppend(episode_steps, rows)
                           handed == HandedOver(steps, done)
                       IN  /\ rb' = rb \o [k \in 1 .. Len(handed) |-> steps[handed[k]]]
                           /\ episode_steps' = EpisodeStepsAfter(steps, done)
               /\ step_data' = ResetDones(rows, done)
               /\ env_obs' = [e \in Envs |-> NextObs(e, done)]
    /\ global_step' = global_step + 1
    /\ pc' = IF global_step < MaxLiveSteps THEN "rollout" ELSE "closed"
    /\ UNCHANGED <<algo, horizon, numvars, trainvars, objvars, optvars, gradvars,
                   args, models, player, acted_on, stds, init_call, shares_storage,
                   schedvars, ppovars>>

NextBuffer ==
    \/ Main_FirstRecord
    \/ Main_EnvStep

SpecBuffer == InitBuffer /\ [][NextBuffer]_vars

\* ======================================================= SpecSchedule
\* The rollout loop of main of dreamer_v2.py as the training schedule sees
\* it, in a fresh run (no checkpoint, no dry run): when an iteration trains,
\* how many training calls the round makes and when the target critic is
\* overwritten.  The records of the iteration are modelled under SpecBuffer.

\* The largest number of iterations of the loop and of training calls a
\* round is configured with.
MaxUpdates == 3
MaxGradientSteps == 2

\* args of a run with world_size = action_repeat = 1: a fresh run, or one
\* resumed from a checkpoint with or without its buffer.
ScheduleArgs ==
    [checkpoint_path : {NoCheckpoint, Checkpoint},
     checkpoint_buffer : BOOLEAN,
     num_envs : 1 .. MaxEnvs,
     learning_starts : 0 .. MaxUpdates,
     train_every : 0 .. MaxUpdates,
     pretrain_steps : 1 .. MaxGradientSteps,
     gradient_steps : 1 .. MaxGradientSteps,
     critic_target_network_update_freq : 1 .. MaxGradientSteps]

\* Line 569, for total_steps = MaxUpdates * num_envs.
NumUpdates == MaxUpdates

\* Lines 564-606: the loop is at start_step, no training call has been made
\* by this process, the target critic is a copy of the critic build_models
\* made.
InitSchedule ==
    /\ algo = "dreamer_v2"
    /\ pc = "rollout"
    /\ IdleTrain
    /\ NoRecurrent
    /\ NoBuffer
    /\ args \in ScheduleArgs
    /\ models = Built(use_continues) /\ player = None /\ env_dones = {} /\ acted_on = None
    /\ stds = None /\ init_call = None
    /\ global_step = StartStep
    /\ step_before_training = TrainEvery
    /\ gradient_steps = 0
    /\ target_critic = param_version["critic"]
    /\ rounds = <<>>
    /\ local_data = 0

\* Lines 716 and 722: n_samples of rb.sample.
SampledBatches ==
    IF global_step = LearningStarts THEN args.pretrain_steps ELSE args.gradient_steps
\* Line 606: the loop goes on to the next global_step or ends.
NextIteration == IF global_step < NumUpdates THEN "rollout" ELSE "closed"

\* Lines 607-723: the environment step of an iteration, the countdown of
\* line 707, and the sampling of a round's batches when the iteration trains.
Main_Iteration ==
    /\ pc = "rollout"
    /\ step_before_training' = step_before_training - 1
    /\ IF TrainsNow(step_before_training')
       THEN /\ local_data' = SampledBatches
            /\ rounds' = Append(rounds, [global_step |-> global_step, calls |-> 0])
            /\ pc' = "train"
            /\ UNCHANGED global_step
       ELSE /\ UNCHANGED <<local_data, rounds>>
            /\ pc' = NextIteration
            /\ global_step' = global_step + 1
    /\ UNCHANGED <<algo, horizon, numvars, trainvars, objvars, optvars, gradvars,
                   bufvars, args, models, player, env_dones, acted_on, stds,
                   init_call, gradient_steps, target_critic, ppovars>>

\* The target critic is overwritten after the training call.
TargetCriticBefore_AfterCall ==
    IF (gradient_steps + 1) % args.critic_target_network_update_freq = 0
    THEN param_version["critic"] + 1
    ELSE target_critic

\* Lines 726-728: the parameters the target critic holds when train is
\* called.
TargetCriticBefore ==
    IF gradient_steps % args.critic_target_network_update_freq = 0
    THEN param_version["critic"]
    ELSE target_critic

\* Lines 725-745: one training call of a round, and the end of the round
\* after the last one.  train steps the optimizers of the world model, the
\* actor and the critic; the target critic is no optimizer's parameter.
Main_GradientStep ==
    /\ pc = "train"
    /\ target_critic' = TargetCriticBefore
    /\ param_version' = [m \in DOMAIN param_version |-> param_version[m] + 1]
    /\ trace' = trace \o UpdateEvents("world_model") \o UpdateEvents("actor")
                      \o UpdateEvents("critic")
    /\ gradient_steps' = gradient_steps + 1
    /\ local_data' = local_data - 1
    /\ rounds' = [rounds EXCEPT ![Len(rounds)].calls = @ + 1]
    /\ IF local_data' = 0
       THEN /\ step_before_training' = TrainEvery
            /\ pc' = NextIteration
            /\ global_step' = global_step + 1
       ELSE UNCHANGED <<step_before_training, pc, global_step>>
    /\ UNCHANGED <<algo, horizon, numvars, trainvars, objvars, gradvars, bufvars,
                   args, models, player, env_dones, acted_on, stds, init_call, ppovars>>

NextSchedule ==
    \/ Main_Iteration
    \/ Main_GradientStep

SpecSchedule == InitSchedule /\ [][NextSchedule]_vars

\* ====================================================== SpecRecurrent
\* Recurrent PPO (ppo_recurrent.py): one update of main, from the first step
\* of its rollout to the last epoch of train.  A rollout stores with every
\* step the done flag and the LSTM states the agent was called with; the
\* rollout is split into episodes at the done flags, the episodes into
\* sequences, and train starts the agent on every sequence from the states
\* stored with its first step.

\* args.rollout_steps.
MaxRolloutSteps == 3

\* args.per_rank_batch_size: None, or the length the episodes are split to.
NoSplit == [is_none |-> TRUE, value |-> 0]
SplitTo(n) == [is_none |-> FALSE, value |-> n]
RecurrentArgs ==
    [num_envs : {1, 2},
     rollout_steps : {MaxRolloutSteps},
     per_rank_batch_size : {NoSplit, SplitTo(1), SplitTo(2)},
     update_epochs : {1, 2},
     reset_recurrent_state_on_done : BOOLEAN]

\* The LSTM states of one environment: ((actor h, actor c), (critic h,
\* critic c)).  agent.initial_states, the states the agent returns for
\* environment e at step t of the rollout (line 226; step -1 is the last
\* step of the previous rollout), and the zero states.
InitialStates ==
    <<<<<<"initial_states", "actor_hxs">>, <<"initial_states", "actor_cxs">>>>,
      <<<<"initial_states", "critic_hxs">>, <<"initial_states", "critic_cxs">>>>>>
AgentStates(e, t) ==
    <<<<<<"actor_hxs", e, t>>, <<"actor_cxs", e, t>>>>,
      <<<<"critic_hxs", e, t>>, <<"critic_cxs", e, t>>>>>>
ZeroStates == <<<<Zero, Zero>>, <<Zero, Zero>>>>

\* Lines 251-254: (1 - done) * e for every state when
\* reset_recurrent_state_on_done is set, the state as it is otherwise.
NextState(done, state) ==
    IF args.reset_recurrent_state_on_done /\ done = 1 THEN ZeroStates ELSE state

\* Lines 215-218 for the first update; for a later one what the previous
\* rollout left in next_done and next_state.
StartOfUpdate ==
    {[next_done |-> [e \in Envs |-> 0], next_state |-> [e \in Envs |-> InitialStates]]}
    \cup {[next_done |-> d,
           next_state |-> [e \in Envs |-> NextState(d[e], AgentStates(e, -1))]] :
              d \in [Envs -> {0, 1}]}

InitRecurrent ==
    /\ algo = "ppo_recurrent"
    /\ pc = "rollout"
    /\ IdleTrain
    /\ NoSchedule
    /\ args \in RecurrentArgs
    /\ models = None /\ player = None /\ env_dones = {} /\ acted_on = None
    /\ stds = None /\ init_call = None /\ global_step = 0
    /\ rb = [e \in Envs |-> <<>>]
    /\ episode_steps = None /\ step_data = None /\ env_obs = None
    /\ shares_storage = FALSE
    /\ \E start \in StartOfUpdate :
           next_done = start.next_done /\ next_state = start.next_state
    /\ rollout_step = 0
    /\ agent_inputs = [e \in Envs |-> <<>>]
    /\ episodes = None /\ sequences = None
    /\ epoch = 0 /\ train_states = <<>>

\* Lines 236-245: the row of environment e in step_data.
StepData(e) ==
    [env |-> e, step |-> rollout_step, dones |-> next_done[e],
     actor_hxs |-> next_state[e][1][1], actor_cxs |-> next_state[e][1][2],
     critic_hxs |-> next_state[e][2][1], critic_cxs |-> next_state[e][2][2]]

\* Lines 221-255: one step of the rollout; the environments of done end
\* their episode (terminated or truncated).
PPO_RolloutStep ==
    /\ algo = "ppo_recurrent" /\ pc = "rollout"
    /\ \E done \in SUBSET Envs :
           /\ env_dones' = done
           /\ agent_inputs' = [e \in Envs |-> Append(agent_inputs[e], next_state[e])]
           /\ rb' = [e \in Envs |-> Append(rb[e], StepData(e))]
           /\ next_done' = [e \in Envs |-> IF e \in done THEN 1 ELSE 0]
           /\ next_state' = [e \in Envs |->
                                NextState(next_done'[e], AgentStates(e, rollout_step))]
    /\ rollout_step' = rollout_step + 1
    /\ global_step' = global_step + args.num_envs
    /\ pc' = IF rollout_step' < args.rollout_steps THEN "rollout" ELSE "prepare"
    /\ UNCHANGED <<algo, horizon, numvars, trainvars, objvars, optvars, gradvars,
                   args, models, player, acted_on, stds, init_call,
                   episode_steps, step_data, env_obs, shares_storage, schedvars,
                   episodes, sequences, epoch, train_states>>

\* x[start:stop] of a sequence.
PySlice(x, start, stop) ==
    SubSeq(x, start + 1, IF stop <= Len(x) THEN stop ELSE Len(x))

\* The indices after the steps with a done flag, then rollout_steps.
EpisodeEnds_AfterDone(env_data) ==
    SortedList({k + 1 : k \in {k \in 0 .. (Len(env_data) - 1) : env_data[k + 1].dones # 0}})
        \o <<args.rollout_steps>>

\* Lines 297-299: the indices of the steps with a non-zero done flag, then
\* rollout_steps.
EpisodeEnds(env_data) ==
    SortedList({k \in 0 .. (Len(env_data) - 1) : env_data[k + 1].dones # 0})
        \o <<args.rollout_steps>>

\* Lines 300-308: the non-empty slices between consecutive ends.
RECURSIVE SplitEpisodes(_, _, _)
SplitEpisodes(env_data, episode_ends, start) ==
    IF episode_ends = <<>> THEN <<>>
    ELSE LET stop == Head(episode_ends)
             episode == PySlice(env_data, start, stop)
         IN  (IF Len(episode) > 0 THEN <<episode>> ELSE <<>>)
                 \o SplitEpisodes(env_data, Tail(episode_ends), stop)

\* Lines 294-308: the episodes of every environment, environment by
\* environment.
RECURSIVE EpisodesFrom(_)
EpisodesFrom(env_id) ==
    IF env_id >= args.num_envs THEN <<>>
    ELSE SplitEpisodes(rb[env_id], EpisodeEnds(rb[env_id]), 0) \o EpisodesFrom(env_id + 1)

\* TensorDict.split(n): consecutive pieces of n rows, the last one shorter.
RECURSIVE Split(_, _)
Split(episode, n) ==
    IF Len(episode) <= n THEN <<episode>>
    ELSE <<SubSeq(episode, 1, n)>> \o Split(SubSeq(episode, n + 1, Len(episode)), n)

\* Lines 310-313: the sequences train is given.
RECURSIVE Chain(_, _)
Chain(eps, n) == IF eps = <<>> THEN <<>> ELSE Split(Head(eps), n) \o Chain(Tail(eps), n)
SequencesOf(eps) ==
    IF ~args.per_rank_batch_size.is_none /\ args.per_rank_batch_size.value > 0
    THEN Chain(eps, args.per_rank_batch_size.value)
    ELSE eps

\* Lines 289-314: the rollout is split into episodes and sequences; padding
\* adds rows after the last one of a sequence.
PPO_Prepare ==
    /\ algo = "ppo_recurrent" /\ pc = "prepare"
    /\ episodes' = EpisodesFrom(0)
    /\ sequences' = SequencesOf(episodes')
    /\ pc' = "train"
    /\ UNCHANGED <<algo, horizon, numvars, trainvars, objvars, optvars, gradvars,
                   livevars, bufvars, schedvars, next_done, next_state,
                   rollout_step, agent_inputs, epoch, train_states>>

\* The states of the last step of a sequence.
InitialStatesOf_LastStep(sequence) ==
    <<<<sequence[Len(sequence)].actor_hxs, sequence[Len(sequence)].actor_cxs>>,
      <<sequence[Len(sequence)].critic_hxs, sequence[Len(sequence)].critic_cxs>>>>

\* train, lines 54 and 64: the first row of the stored states of a sequence,
\* as ((actor h, actor c), (critic h, critic c)).
InitialStatesOf(sequence) ==
    <<<<sequence[1].actor_hxs, sequence[1].actor_cxs>>,
      <<sequence[1].critic_hxs, sequence[1].critic_cxs>>>>

\* train, lines 53-103: one update epoch; every sequence is in one batch of
\* the sampler and the agent is started on it from its initial states.
PPO_TrainEpoch ==
    /\ algo = "ppo_recurrent" /\ pc = "train"
    /\ train_states' = Append(train_states,
                              [n \in 1 .. Len(sequences) |-> InitialStatesOf(sequences[n])])
    /\ epoch' = epoch + 1
    /\ pc' = IF epoch' < args.update_epochs THEN "train" ELSE "done"
    /\ UNCHANGED <<algo, horizon, numvars, trainvars, objvars, optvars, gradvars,
                   livevars, bufvars, schedvars, next_done, next_state,
                   rollout_step, agent_inputs, episodes, sequences>>

NextRecurrent ==
    \/ PPO_RolloutStep
    \/ PPO_Prepare
    \/ PPO_TrainEpoch

SpecRecurrent == InitRecurrent /\ [][NextRecurrent]_vars

\* ================================================================ claims
LatentStochastic(x) == x[2]
LatentRecurrent(x) == x[3]
AfterDynamic == pc \in {"world", "behaviour", "imagine", "predict", "done"}
InImagination == pc \in {"imagine", "predict", "done"} /\ algo \in {"dreamer_v2", "p2e"}
AfterImagination == pc \in {"predict", "done"} /\ algo \in {"dreamer_v2", "p2e"}
\* The timesteps whose stepper call has returned and been stored.
StoredSteps == IF pc = "raised" \/ pc = "start" THEN {} ELSE 0 .. (dynamic_calls - 1)

\* x is the latent state one imagination step after prev: its recurrent
\* state is the transition of prev, its stochastic state a prior sample of it.
ImaginedFrom(x, prev) ==
    /\ x[1] = "cat"
    /\ LatentRecurrent(x)[1] = "rnn"
    /\ RnnRecurrentIn(LatentRecurrent(x)) = LatentRecurrent(prev)
    /\ RnnStochasticIn(LatentRecurrent(x)) = LatentStochastic(prev)
    /\ LatentStochastic(x)[1] = "sample"
    /\ LatentStochastic(x)[2] = DistParams(TransitionModel(LatentRecurrent(x)))

\* C1: in every Dynamics Stepper call, for every example whose is_first is
\* set at timestep t, the recurrent and the stochastic state that enter the
\* recurrent transition at t are zero, whatever was carried over from t-1;
\* for the stepper of DreamerV2 and for RSSM.dynamic of DreamerV1.
C1_IsFirstZeroesState ==
    algo \in {"dreamer_v2", "dreamer_v1"} =>
        \A t \in StoredSteps : \A b \in Batch :
            is_first[t][b] = 1 =>
                /\ RnnRecurrentIn(recurrent_states[t][b]) = Zero
                /\ RnnStochasticIn(recurrent_states[t][b]) = Zero

\* C2: for every timestep t >= 1 of a window and every example whose
\* is_first is not set at t, the state fed to the stepper at t is the
\* recurrent state and the posterior sample the stepper returned at t-1,
\* never the prior sample and never a zeroed state: whenever a call has
\* returned and another one follows, the loop holds exactly the recurrent
\* state and the posterior of the returned tuple, and that state is what
\* entered the transition at t.
C2_CarriedStateIsReturned ==
    /\ (pc = "dynamic" /\ dynamic_calls >= 1) =>
           \A b \in Batch :
               /\ recurrent_state[b] = returned[b][1]
               /\ posterior[b] = returned[b][2]
               /\ posterior[b][1] = "sample"
               /\ posterior[b][2][2][1] = "representation_model"
    /\ \A t \in StoredSteps : \A b \in Batch :
           (t >= 1 /\ is_first[t][b] = 0) =>
               /\ RnnRecurrentIn(recurrent_states[t][b]) = recurrent_states[t - 1][b]
               /\ RnnStochasticIn(recurrent_states[t][b]) = posteriors[t - 1][b]
               /\ recurrent_states[t - 1][b] # Zero
               /\ posteriors[t - 1][b] # Zero

\* A DreamerV2 window whose example 0 goes on at timestep 1 and whose
\* example 1 starts an episode there, every stepper call made.
C2_Witness ==
    /\ algo = "dreamer_v2" /\ pc = "world"
    /\ dynamic_calls = sequence_length /\ sequence_length >= 2
    /\ is_first[1][0] = 0 /\ is_first[1][1] = 1
    /\ RnnRecurrentIn(recurrent_states[1][0]) = recurrent_states[0][0]
    /\ RnnStochasticIn(recurrent_states[1][0]) = posteriors[0][0]
    /\ RnnRecurrentIn(recurrent_states[1][1]) = Zero

\* C3: a rollout with horizon H yields exactly H+1 latent states, index 0 the
\* seed and indices 1..H the imagined states in order, and exactly H+1 action
\* slots, slot 0 the zero placeholder and slots 1..H sampled actions.
C3_TrajectoryShape ==
    AfterImagination =>
        /\ DOMAIN imagined_trajectories = 0 .. horizon
        /\ DOMAIN imagined_actions = 0 .. horizon
        /\ \A n \in Trajs :
               /\ Value(imagined_trajectories[0][n])
                      = Cat(Flatten(posteriors)[n], Flatten(recurrent_states)[n])
               /\ imagined_actions[0][n] = Zero
               /\ \A j \in 1 .. horizon :
                      /\ ImaginedFrom(imagined_trajectories[j][n],
                                      imagined_trajectories[j - 1][n])
                      /\ imagined_actions[j][n][1] = "actor"

\* The rollout of the largest horizon is over: H + 1 rows, the last one an
\* imagined state, the first action slot the placeholder.
C3_Witness ==
    /\ algo = "dreamer_v2" /\ pc = "predict" /\ horizon = MaxHorizon
    /\ Cardinality(DOMAIN imagined_trajectories) = horizon + 1
    /\ Cardinality(DOMAIN imagined_actions) = horizon + 1
    /\ \A n \in Trajs :
           /\ imagined_actions[0][n] = Zero
           /\ LatentRecurrent(imagined_trajectories[horizon][n])[1] = "rnn"

\* C4: the action sampled from the policy at latent state i-1 is the action
\* used in the transition that produces latent state i and is the action
\* recorded at index i of imagined_actions, and it stays recorded there
\* while the later steps run and after the rollout.
C4_RecordedActionLedToState ==
    InImagination =>
        \A n \in Trajs :
            \A j \in 1 .. imagine_steps :
                /\ imagined_actions[j][n][1] = "actor"
                /\ Value(imagined_actions[j][n][2])
                       = Value(imagined_trajectories[j - 1][n])
                /\ RnnActionIn(LatentRecurrent(imagined_trajectories[j][n]))
                       = imagined_actions[j][n]

\* Two steps made: the action of the first step is still at index 1 after
\* the second step wrote index 2, and the two differ.
C4_Witness ==
    /\ algo = "dreamer_v2" /\ pc \in {"predict", "done"} /\ imagine_steps = 2
    /\ \A n \in Trajs :
           /\ RnnActionIn(LatentRecurrent(imagined_trajectories[1][n]))
                  = imagined_actions[1][n]
           /\ RnnActionIn(LatentRecurrent(imagined_trajectories[2][n]))
                  = imagined_actions[2][n]
           /\ imagined_actions[1][n] # imagined_actions[2][n]

\* C5: during a rollout only the actor, the recurrent model and the
\* transition model are invoked; every imagined state is a prior sample of
\* its own recurrent state, so no posterior and no observation embedding
\* enters it.
C5_ImaginationUsesPriorOnly ==
    InImagination =>
        /\ called \subseteq {"actor", "recurrent_model", "transition_model"}
        /\ \A n \in Trajs :
               \A j \in (DOMAIN imagined_trajectories) \ {IF algo = "p2e" THEN -1 ELSE 0} :
                   imagined_trajectories[j][n] # Empty =>
                       /\ LatentStochastic(imagined_trajectories[j][n])[2][2][1]
                              = "transition_model"
                       /\ LatentStochastic(imagined_trajectories[j][n])[2][2][2]
                              = LatentRecurrent(imagined_trajectories[j][n])

C5_Witness ==
    /\ algo = "dreamer_v2" /\ pc = "done" /\ horizon = MaxHorizon
    /\ imagine_steps = horizon
    /\ called = {"actor", "recurrent_model", "transition_model"}

\* C6: the dynamic learning loop makes exactly sequence_length stepper calls
\* and the rollout exactly horizon transition steps for every trajectory,
\* whatever records that follow a done the window holds, and the training
\* call goes on until it is done or a metric update raises (line 207, see
\* C22).
C6_FixedLengthLoops ==
    algo = "dreamer_v2" =>
        /\ pc = "dynamic" => dynamic_calls < sequence_length
        /\ AfterDynamic =>
               /\ dynamic_calls = sequence_length
               /\ \A t \in Steps : \A b \in Batch : posteriors[t][b] # Empty
        /\ pc = "imagine" => imagine_steps < horizon
        /\ pc \in {"predict", "done"} =>
               /\ imagine_steps = horizon
               /\ \A j \in 1 .. horizon : \A n \in Trajs :
                      imagined_trajectories[j][n] # Empty
        /\ pc \notin {"done", "raised"} => ENABLED Next

C6_Witness ==
    /\ algo = "dreamer_v2" /\ pc = "done" /\ horizon = MaxHorizon
    /\ dynamic_calls = sequence_length /\ imagine_steps = horizon
    /\ \E b \in Batch : is_first[1][b] = 1

\* The tensors the dynamic learning loop stored.
DynamicTensors ==
    {posteriors[t][b] : t \in Steps, b \in Batch}
        \cup {recurrent_states[t][b] : t \in Steps, b \in Batch}

\* C7: the seed of a rollout is detached and the policy input is detached at
\* every step: no gradient path leads from an imagined state or a recorded
\* action to a tensor of the dynamic learning phase.

C7_SeedDetached ==
    InImagination =>
        \A n \in Trajs :
            /\ \A j \in DOMAIN imagined_trajectories :
                   GradPath(imagined_trajectories[j][n]) \cap DynamicTensors = {}
            /\ \A j \in DOMAIN imagined_actions :
                   /\ GradPath(imagined_actions[j][n]) \cap DynamicTensors = {}
                   /\ imagined_actions[j][n][1] = "actor" =>
                          imagined_actions[j][n][2][1] = "detach"

C7_Witness ==
    /\ algo = "dreamer_v2" /\ pc = "done" /\ horizon = MaxHorizon
    /\ \A n \in Trajs :
           /\ imagined_trajectories[0][n] # Empty
           /\ Value(LatentStochastic(imagined_trajectories[0][n])) = Flatten(posteriors)[n]
           /\ imagined_actions[horizon][n][1] = "actor"

\* ---- the Return Estimator and the discount (SpecReturn)
\* The horizon compute_lambda_values is called with, and the value of the
\* last imagined state it is given as the bootstrap.
EstimatorHorizon == IF algo = "dreamer_v2" THEN horizon ELSE horizon - 1
LastImaginedValue ==
    IF algo = "dreamer_v2" THEN predicted_target_values[horizon]
                           ELSE predicted_target_values[horizon - 2]
LambdaComputed == pc \in {"discount", "actor"}
\* rewards [1,1,1], values [0,0,0], bootstrap 5, continuation [1,1,1]
ReturnExample ==
    /\ algo = "dreamer_v2" /\ horizon = 3 /\ LambdaComputed
    /\ \A t \in 0 .. 2 : /\ predicted_rewards[t] = ROne
                         /\ predicted_target_values[t] = RZero
                         /\ continues[t] = ROne
    /\ predicted_target_values[3] = <<5, 1>>

\* C8: with lambda = 1 the estimator returns, for every t of its horizon H,
\* lambda_value_t = reward_t + continuation_t * lambda_value_{t+1}, where
\* lambda_value_H is the value of the last imagined state: no intermediate
\* value enters, exactly H values are returned, and rewards [1,1,1], values
\* [0,0,0], bootstrap 5, continuation [1,1,1] give 8, 7, 6.
C8_LambdaOneIsMonteCarlo ==
    (LambdaComputed /\ lmbda = ROne) =>
        /\ DOMAIN lambda_values = 0 .. (EstimatorHorizon - 1)
        /\ \A t \in 0 .. (EstimatorHorizon - 1) :
               lambda_values[t] =
                   RAdd(predicted_rewards[t],
                        RMul(continues[t],
                             IF t + 1 = EstimatorHorizon THEN LastImaginedValue
                                                         ELSE lambda_values[t + 1]))
        /\ ReturnExample =>
               lambda_values = [t \in 0 .. 2 |-> <<8 - t, 1>>]

C8_Witness ==
    /\ ReturnExample /\ lmbda = ROne /\ pc = "actor"
    /\ lambda_values[0] = <<8, 1>> /\ lambda_values[2] = <<6, 1>>

\* C9: with lambda = 0 the estimator of DreamerV2 returns, for every t of the
\* horizon H, the one-step target reward_t + continuation_t * value_{t+1},
\* value_H being the bootstrap; rewards [1,1,1], values [0,0,0], bootstrap 5,
\* continuation [1,1,1] give [1,1,6].
C9_LambdaZeroIsOneStepTarget ==
    (algo = "dreamer_v2" /\ LambdaComputed /\ lmbda = RZero) =>
        /\ DOMAIN lambda_values = 0 .. (horizon - 1)
        /\ \A t \in 0 .. (horizon - 1) :
               lambda_values[t] =
                   RAdd(predicted_rewards[t],
                        RMul(continues[t], predicted_target_values[t + 1]))
        /\ ReturnExample =>
               lambda_values = [t \in 0 .. 2 |-> IF t = 2 THEN <<6, 1>> ELSE ROne]

C9_Witness ==
    /\ ReturnExample /\ lmbda = RZero /\ pc = "actor"
    /\ lambda_values[1] = ROne /\ lambda_values[2] = <<6, 1>>

\* C10: the discount starts at 1 and discount_t = discount_{t-1} *
\* continuation_{t-1} for every later row, so that discount_t is the product
\* of continuation_0 .. continuation_{t-1}; DreamerV2 has horizon + 1 rows of
\* it, and the constant continuation 0.99 gives over its first four rows
\* 1, 0.99, 0.9801, 0.970299.
C10_DiscountIsCumulativeProduct ==
    pc = "actor" =>
        /\ discount[0] = ROne
        /\ \A t \in DOMAIN discount \ {0} :
               discount[t] = RMul(discount[t - 1], continues[t - 1])
        /\ algo = "dreamer_v2" => DOMAIN discount = 0 .. horizon
        /\ (algo = "dreamer_v2" /\ horizon >= 3 /\ ~use_continues
                /\ gamma = <<99, 100>>) =>
               /\ discount[1] = <<99, 100>>
               /\ discount[2] = <<9801, 10000>>
               /\ discount[3] = <<970299, 1000000>>

C10_Witness ==
    /\ algo = "dreamer_v2" /\ pc = "actor" /\ horizon = 3 /\ ~use_continues
    /\ gamma = <<99, 100>>
    /\ discount = (0 :> ROne @@ 1 :> <<99, 100>> @@ 2 :> <<9801, 10000>>
                     @@ 3 :> <<970299, 1000000>>)

\* ---- the actor and critic objectives (SpecObjective)
\* The imagined state that only bootstraps the lambda values.
BootstrapState == ImaginedRows - 1

\* C11: the critic objective has exactly one term per imagined state
\* t = 0..H-1: the log-likelihood of the detached lambda value t under the
\* critic's prediction at imagined state t, weighted by discount t; the
\* bootstrap state (index H) enters no term, and as many critic
\* predictions, lambda values and discount weights are used.
C11_CriticTermPerState ==
    /\ value_loss # <<"RuntimeError">>
    /\ pc = "done" =>
           /\ DOMAIN value_loss = 0 .. (horizon - 1)
           /\ DOMAIN value_loss = DOMAIN lambda_values
           /\ Rows(DV2_CriticStates) = Rows(lambda_values)
           /\ Rows(DV2_ValueDiscount) = Rows(lambda_values)
           /\ \A t \in DOMAIN value_loss :
                  /\ value_loss[t].state = t
                  /\ value_loss[t].state # BootstrapState
                  /\ value_loss[t].lambda_value = t
                  /\ value_loss[t].target = lambda_values[t]
                  /\ value_loss[t].target_detached
                  /\ value_loss[t].discount = t
                  /\ value_loss[t].weight = discount[t]

\* The critic update of the largest horizon is done, with weights that are
\* not all one: a term for the states 0 .. H-1, none for state H.
C11_Witness ==
    /\ algo = "dreamer_v2" /\ pc = "done" /\ horizon = MaxReturnHorizon
    /\ Rows(value_loss) = horizon
    /\ value_loss[horizon - 1].state = horizon - 1
    /\ value_loss[horizon - 1].weight # ROne
    /\ \A t \in DOMAIN value_loss : value_loss[t].state # horizon

\* The actor objective has been formed (lines 320-339).
ObjectiveFormed == algo = "dreamer_v2" /\ pc \in {"entropy", "policy_loss", "critic", "done"}

\* C12: every term of the actor objective is mix * reinforce + (1 - mix) *
\* dynamics with the one configured mix: reinforce is the log-probability of
\* the imagined action times the detached advantage (lambda value minus the
\* critic's baseline), dynamics is the lambda value; with mix = 0 the term is
\* the dynamics term alone and with mix = 1 the reinforce term alone.
C12_ObjectiveMix ==
    ObjectiveFormed =>
        \A j \in DOMAIN objective :
            LET o == objective[j]
                advantage == RSub(lambda_values[o.lambda_value],
                                  predicted_target_values[o.baseline])
            IN  /\ o.advantage_detached
                /\ o.reinforce = RMul(log_probs[j], advantage)
                /\ o.dynamics = lambda_values[o.lambda_value]
                /\ RSub(o.val, o.dynamics)
                       = RMul(objective_mix, RSub(o.reinforce, o.dynamics))
                /\ objective_mix = RZero => o.val = o.dynamics
                /\ objective_mix = ROne => o.val = o.reinforce

\* An objective of two terms formed with mix = 1 whose reinforce and dynamics
\* terms differ.
C12_Witness ==
    /\ ObjectiveFormed
    /\ Rows(objective) = 2
    /\ objective_mix = ROne
    /\ \E j \in DOMAIN objective :
           /\ objective[j].reinforce # objective[j].dynamics
           /\ objective[j].val = objective[j].reinforce

\* The events of the optimization steps taken so far contain the step of a
\* model.
StepTaken(model) == \E k \in 1 .. Len(trace) : trace[k] = <<"step", model>>

\* C13: when the entropy of the policies is not implemented the training
\* step does not fail: the bonus of every term is zero, the policy loss is
\* the negated mean of discount * objective, and the actor step and the
\* critic update take place.
C13_NoEntropyStillTrains ==
    (algo = "dreamer_v2" /\ ~has_entropy) =>
        /\ pc # "raised"
        /\ pc \in {"policy_loss", "critic", "done"} =>
               \A j \in DOMAIN entropy : entropy[j] = RZero
        /\ pc \in {"critic", "done"} =>
               /\ policy_loss.loss =
                      NegMean([j \in DOMAIN objective |->
                                  [val |-> RMul(DV2_PolicyDiscount[j].val, objective[j].val)]])
               /\ StepTaken("actor")
        /\ pc = "done" => StepTaken("critic")

\* The same when the entropy is implemented: the step never fails.
C13_WithEntropyTrains ==
    (algo = "dreamer_v2" /\ has_entropy) =>
        /\ pc # "raised"
        /\ pc = "done" => StepTaken("actor") /\ StepTaken("critic")

\* ---- the order of the optimization steps (Spec)
\* The position of a model in the order of the updates of train.
UpdateRank(model) == CASE model = "world_model" -> 1 [] model = "actor" -> 2 [] model = "critic" -> 3
\* How many optimizer steps of a model the events hold.
RECURSIVE StepsIn(_, _)
StepsIn(events, model) ==
    IF events = <<>> THEN 0
    ELSE (IF Head(events) = <<"step", model>> THEN 1 ELSE 0) + StepsIn(Tail(events), model)
\* The parameters change at optimizer steps only, the steps come in the
\* order world model, actor, critic, and each follows the loss and the
\* backward pass of its own model.
UpdatesOrdered ==
    /\ \A model \in DOMAIN param_version : param_version[model] = StepsIn(trace, model)
    /\ \A k, l \in 1 .. Len(trace) :
           k < l => UpdateRank(trace[k][2]) <= UpdateRank(trace[l][2])
    /\ \A k \in 1 .. Len(trace) :
           trace[k][1] = "step" =>
               /\ k >= 3
               /\ trace[k - 1] = <<"backward", trace[k][2]>>
               /\ trace[k - 2] = <<"loss", trace[k][2]>>
\* A step of the dynamic learning loop or of the imagination loop (and of
\* their preparation) leaves every parameter as it is.
LoopsKeepParameters ==
    pc \in {"start", "dynamic", "behaviour", "imagine"} => UNCHANGED <<param_version, trace>>

\* C19: no parameter changes during the dynamic learning loop or the
\* imagination loop; parameters change only at the optimizer steps, taken in
\* the order world model, actor, critic, each after the loss of its model
\* was computed and back-propagated.
C19_UpdateOrder == [][LoopsKeepParameters]_vars /\ []UpdatesOrdered

\* A DreamerV2 training call that ran both loops and took the three steps.
C19_Witness ==
    /\ algo = "dreamer_v2" /\ pc = "done"
    /\ dynamic_calls = sequence_length /\ imagine_steps = horizon
    /\ param_version = [world_model |-> 1, actor |-> 1, critic |-> 1]
    /\ Len(trace) = 9

\* ---- the stepper's tuple and its binding (Spec)
\* The stepper has returned and the training loop has bound (or failed to
\* bind) what it returned; the imagination has not yet replaced the state.
DynamicBound == dynamic_calls >= 1 /\ pc \in {"dynamic", "world", "behaviour", "raised", "done"}
                    /\ imagine_steps = 0 /\ imagined_prior = None

\* C15: the stepper returns (recurrent state, posterior, prior, posterior
\* parameters, prior parameters) in this order, and every training loop
\* binds the five values in this order: the carried and the stored recurrent
\* state and posterior and the stored distribution parameters are the
\* elements 1, 2, 4 and 5 of the returned tuple.
C15_TupleOrderAndBinding ==
    DynamicBound =>
        \A b \in Batch :
            LET ret == returned[b]
                t == dynamic_calls - 1
            IN  /\ Len(ret) = 5
                /\ ret[1][1] = "rnn"
                /\ ret[4] = DistParams(RepresentationModel(ret[1], EmbeddedObs(t, b)))
                /\ ret[5] = DistParams(TransitionModel(ret[1]))
                /\ ret[2][1] = "sample" /\ ret[2][2] = ret[4]
                /\ ret[3][1] = "sample" /\ ret[3][2] = ret[5]
                /\ pc # "raised"
                /\ recurrent_state[b] = ret[1]
                /\ posterior[b] = ret[2]
                /\ recurrent_states[t][b] = ret[1]
                /\ posteriors[t][b] = ret[2]
                /\ posteriors_logits[t][b] = ret[4]
                /\ priors_logits[t][b] = ret[5]

\* The same for the loops of DreamerV2 and DreamerV1 alone.
C15_DreamerLoops == algo # "p2e" => C15_TupleOrderAndBinding

\* ---- what the prior depends on (Spec)
\* The observation embeddings a call of the stepper may be given.
Embeddings == {EmbeddedObs(t, b) : t \in Steps, b \in Batch} \cup {Zero}
\* A training loop on RSSM.dynamic of dreamer_v1/agent.py takes a step.
DynamicCall == algo \in {"dreamer_v1", "p2e"} /\ pc = "dynamic"
                   /\ dynamic_calls' = dynamic_calls + 1
\* The tuple the stepper returns on the inputs of the current call with the
\* observation embedding replaced.
DynamicWith(e, b) ==
    RSSM_dynamic(posterior[b], recurrent_state[b], Action(i, b), e, rng, b)
SamePriorWhateverObs ==
    DynamicCall =>
        \A b \in Batch :
            /\ returned'[b][5] = DistParams(TransitionModel(returned'[b][1]))
            /\ returned'[b][4] =
                   DistParams(RepresentationModel(returned'[b][1], EmbeddedObs(i, b)))
            /\ \A e \in Embeddings :
                   /\ DynamicWith(e, b)[1] = returned'[b][1]
                   /\ DynamicWith(e, b)[5] = returned'[b][5]
                   /\ DynamicWith(e, b)[3] = returned'[b][3]
                   /\ e # EmbeddedObs(i, b) => DynamicWith(e, b)[4] # returned'[b][4]

\* C16: the prior and the posterior of a call are computed from the same
\* new recurrent state, and the prior from it alone: a call that differs
\* only in the observation embedding returns the same recurrent state and
\* the same prior parameters (and another posterior).
C16_PriorIgnoresObservation == [][SamePriorWhateverObs]_vars

\* The second call of a DreamerV1 window has returned: its prior and its
\* posterior are built on the recurrent state it returned, which carries
\* the first observation but not the second.
C16_Witness ==
    /\ algo = "dreamer_v1" /\ dynamic_calls = 2
    /\ \A b \in Batch :
           /\ returned[b][5] = DistParams(TransitionModel(returned[b][1]))
           /\ returned[b][4] = DistParams(RepresentationModel(returned[b][1], EmbeddedObs(1, b)))
           /\ RnnStochasticIn(returned[b][1]) = posteriors[0][b]
           /\ posteriors_logits[0][b] =
                  DistParams(RepresentationModel(recurrent_states[0][b], EmbeddedObs(0, b)))

\* ---- the floor of the standard deviation (SpecPlayer)
\* The producers of continuous stochastic-state distributions.
Producers == {"prior", "posterior", "player"}
FlooredAt(produced, min_std) ==
    /\ RLeq(min_std, produced.std)
    /\ produced.raw = RZero => produced.std = min_std

\* C14: every distribution produced by the prior, by the posterior and by
\* the live player has std >= the configured min_std, a raw std of 0 gives
\* exactly that floor, and the three apply the same configured floor.
C14_StdAtLeastConfiguredFloor ==
    \A producer \in Producers :
        stds[producer] # None => FlooredAt(stds[producer], args.min_std)

\* The prior and the posterior alone.
C14_PriorAndPosterior ==
    \A producer \in {"prior", "posterior"} :
        stds[producer] # None => FlooredAt(stds[producer], args.min_std)

\* ---- the reset of the player (SpecPlayer)
PlayerFields == {"actions", "recurrent_state", "stochastic_state"}
\* Environment e of player p is in the zero state.
ZeroState(p, e) == \A field \in PlayerFields : p[field][e] = Zero
\* Environment e has in p the state it has in q.
SameState(p, q, e) == \A field \in PlayerFields : p[field][e] = q[field][e]

\* C17: init_states called with a non-empty list of indices zeroes the
\* stored action, recurrent state and stochastic state of exactly those
\* environments and leaves the others as they were; called with None or
\* with an empty list it zeroes every environment.
C17_InitStates ==
    init_call # None =>
        LET asked == init_call.reset_envs
        IN  \A e \in Envs :
                IF asked.is_none \/ asked.envs = <<>> \/ e \in ElementsOf(asked.envs)
                THEN ZeroState(player, e)
                ELSE SameState(player, init_call.before, e)

\* init_states was called with the list [0] on a player of two environments
\* that had both acted: environment 0 is zeroed, environment 1 keeps its
\* state.
C17_Witness ==
    /\ init_call # None
    /\ args.num_envs = 2
    /\ init_call.reset_envs = ListArg(<<0>>)
    /\ ~ZeroState(init_call.before, 0) /\ ~ZeroState(init_call.before, 1)
    /\ ZeroState(player, 0)
    /\ SameState(player, init_call.before, 1) /\ ~ZeroState(player, 1)

\* init_states was called with an empty list on a player that had acted.
C17_WitnessEmpty ==
    /\ init_call # None
    /\ init_call.reset_envs = ListArg(<<>>)
    /\ \E e \in Envs : ~ZeroState(init_call.before, e)
    /\ \A e \in Envs : ZeroState(player, e)

\* ---- the reset during the live rollout (SpecPlayer)
\* The player has just computed the action of an iteration after the first.
ActedAfterStep == pc = "step" /\ acted_on # None /\ global_step >= 2
\* The environment step of an iteration leaves the player's state of every
\* environment that did not end as it was.
OthersKeepState ==
    (pc = "step" /\ pc' = "train") =>
        \A e \in Envs : e \notin env_dones' => SameState(player', player, e)

\* C18: when environment i reported done or truncated, the player's state
\* of i is zero when the next action is computed, and the environment step
\* leaves the state of the environments that did not end unchanged.
C18_ResetOnDone ==
    /\ [](ActedAfterStep => \A e \in env_dones : ZeroState(acted_on, e))
    /\ [][OthersKeepState]_vars

\* The second action of a DreamerV2 rollout on two environments after
\* environment 0 alone had ended: it was computed from the zero state for
\* environment 0 and from the state the first action left for environment 1.
C18_Witness ==
    /\ algo = "dreamer_v2" /\ ActedAfterStep
    /\ args.num_envs = 2 /\ env_dones = {0}
    /\ ZeroState(acted_on, 0)
    /\ ~ZeroState(acted_on, 1)
    /\ RnnRecurrentIn(player.recurrent_state[1]) = acted_on.recurrent_state[1]
    /\ RnnRecurrentIn(player.recurrent_state[0]) = Zero

\* ---- the validation of the hyper-parameters (SpecPlayer)
InUnitInterval(x) == RLeq(RZero, x) /\ RLeq(x, ROne)
\* A configuration the spec asks build_models to reject.
InvalidArgs(a) ==
    \/ a.stochastic_size <= 0
    \/ a.recurrent_state_size <= 0
    \/ a.dense_units <= 0
    \/ a.cnn_channels_multiplier <= 0
    \/ a.cnn_act \notin NnActivations
    \/ a.dense_act \notin NnActivations
    \/ ~InUnitInterval(a.lmbda)
    \/ ~InUnitInterval(a.kl_balancing_alpha)
\* build_models has returned or raised.
BuildEnded == algo = "dreamer_v1" /\ models # None

\* C20: for a non-positive size (stochastic state, recurrent state, dense
\* units, channel multiplier), a name that is no activation, or lambda or
\* alpha outside [0, 1], construction fails with a descriptive error before
\* any model is built.
C20_InvalidArgsFailFast ==
    (BuildEnded /\ InvalidArgs(args)) =>
        /\ models.error = "ValueError"
        /\ models.message # ""
        /\ models.built = {}

\* The part of it build_models does check: the channel multiplier, the
\* dense units and names torch.nn does not have.
C20_CheckedArgsFailFast ==
    (BuildEnded /\ (\/ args.cnn_channels_multiplier <= 0
                    \/ args.dense_units <= 0
                    \/ args.cnn_act \notin NnAttributes
                    \/ args.dense_act \notin NnAttributes)) =>
        /\ models.error = "ValueError"
        /\ models.message # ""
        /\ models.built = {}

\* ---- Continuations (dreamer_v2.py:281-288, p2e.py:238-241)
\* continues is computed.
ContinuesFormed == algo \in {"dreamer_v2", "p2e"} /\ continues # None
\* The outputs the continuation predictor takes in ContinueProbs.
PredictorOutputs == {<<1, 2>>, ROne}
\* (1 - done) * gamma for a done flag, or a predictor output times gamma.
ScaledByGamma ==
    {RMul(<<1 - d, 1>>, gamma) : d \in {0, 1}}
        \cup {RMul(p, gamma) : p \in PredictorOutputs}

\* C21: every continuation fed to the return estimator and to the cumulative
\* discount lies in [0, 1] and is (1 - done) * gamma or the continuation
\* predictor's output times gamma, at every index, with and without a
\* continue model.
C21_ContinuesScaledByGamma ==
    ContinuesFormed =>
        \A t \in DOMAIN continues :
            /\ RLeq(RZero, continues[t]) /\ RLeq(continues[t], ROne)
            /\ continues[t] \in ScaledByGamma

\* The part that holds: every continuation is in [0, 1]; without a continue
\* model it is gamma, and with DreamerV2's continue model index 0 is
\* (1 - done) * gamma.
C21_ContinuesInUnitInterval ==
    ContinuesFormed =>
        /\ \A t \in DOMAIN continues :
               /\ RLeq(RZero, continues[t]) /\ RLeq(continues[t], ROne)
               /\ ~use_continues => continues[t] = gamma
        /\ (algo = "dreamer_v2" /\ use_continues) =>
               continues[0] = RMul(<<1 - dones, 1>>, gamma)

\* ---- Windows start an episode (dreamer_v2.py:128-158)
\* The training call is past line 130.
WindowStarted == algo = "dreamer_v2" /\ pc # "start"
\* The state the stepper's first call leaves for example b when it starts
\* from the zero state.
FromZeroState(b) == RecurrentModel(Cat(Zero, Action(0, b)), Zero)
\* Lines 128-130 and the rest of the call keep is_first at indices >= 1.
LaterFirstsKept ==
    algo = "dreamer_v2" =>
        \A t \in Steps \ {0} : is_first'[t] = is_first[t]

\* C25: a training call sets is_first = 1 at index 0 of every batch example
\* whatever the sampled data hold, so the first stepper call of a window
\* starts from the zero state, and is_first at indices >= 1 is unchanged.
C25_WindowStartsEpisode ==
    /\ [](WindowStarted => \A b \in Batch : is_first[0][b] = 1)
    /\ []((WindowStarted /\ dynamic_calls >= 1) =>
              \A b \in Batch : recurrent_states[0][b] = FromZeroState(b))
    /\ [][LaterFirstsKept]_vars

\* The first stepper call is over on a window whose later timesteps hold both
\* values of is_first.
C25_Witness ==
    /\ WindowStarted /\ dynamic_calls >= 1
    /\ \E b \in Batch : is_first[1][b] = 1
    /\ \E b \in Batch : is_first[1][b] = 0
    /\ \A b \in Batch : recurrent_states[0][b] = FromZeroState(b)

\* ---- Pairing of the actor objective (dreamer_v2.py:305-344)
\* The policy loss of line 344 is computed.
PolicyLossFormed == algo = "dreamer_v2" /\ pc \in {"critic", "done"}
\* The indices of the terms of a horizon of at least 2.
ActorTerms == 0 .. (horizon - 2)

\* C26: for a horizon H >= 2 the actor objective has exactly H - 1 terms and
\* term j pairs the policy at imagined state j with imagined action j + 1,
\* lambda value j + 1, target-critic baseline value j and discount weight j;
\* the last two imagined states, the placeholder action 0 and lambda value 0
\* enter no term.
C26_ActorTermPairing ==
    /\ (ObjectiveFormed /\ horizon >= 2) =>
           /\ DOMAIN objective = ActorTerms
           /\ \A j \in ActorTerms :
                  /\ objective[j].policy = j
                  /\ objective[j].action = j + 1
                  /\ objective[j].lambda_value = j + 1
                  /\ objective[j].baseline = j
           /\ \A j \in DOMAIN objective :
                  /\ objective[j].policy \notin {horizon - 1, horizon}
                  /\ objective[j].action # 0
                  /\ objective[j].lambda_value # 0
    /\ (PolicyLossFormed /\ horizon >= 2) =>
           /\ DOMAIN policy_loss.terms = ActorTerms
           /\ \A j \in ActorTerms : policy_loss.terms[j].discount = j

\* The policy loss of the longest horizon is computed: two terms.
C26_Witness ==
    /\ PolicyLossFormed /\ horizon = MaxReturnHorizon
    /\ Rows(policy_loss.terms) = horizon - 1
    /\ objective[horizon - 2].action = horizon - 1

\* ---- Gradient norms as metrics (dreamer_v2.py:201-207, 345-351, 362-368)
\* The keys under which the aggregator received a gradient norm.
SurfacedNorms == {aggregator[k][1] : k \in DOMAIN aggregator}
AllNorms == {"Grads/world_model", "Grads/actor", "Grads/critic"}

\* C22: every training call surfaces the gradient norm of the world model, of
\* the actor and of the critic to the metric aggregator and then completes,
\* whether clip_gradients is unset, zero or positive and also when a norm is
\* non-finite.
C22_GradNormsSurfaced ==
    algo = "dreamer_v2" =>
        /\ pc # "raised"
        /\ pc = "done" => SurfacedNorms = AllNorms

\* The part that holds: with a positive clip_gradients a call whose policy
\* implements entropy() surfaces the three norms and completes, a non-finite
\* norm included (a call whose policy does not can raise at line 344, C13).
C22_ClippedCallSurfacesNorms ==
    (algo = "dreamer_v2" /\ ClipsGradients) =>
        /\ pc # "raised"
        /\ pc = "done" => SurfacedNorms = AllNorms

\* ---- Records of the replay buffer (dreamer_v2.py:594-603, 636, 674-705)
\* The first records are in the buffer.
Recorded == algo = "dreamer_v2" /\ pc \in {"rollout", "closed"}
SequentialRun == Recorded /\ args.buffer_type = "sequential"
EpisodeRun == Recorded /\ args.buffer_type = "episode"
\* A record that starts an episode: no done, a zero action, a zero reward.
StartsEpisode(record) ==
    /\ record.is_first = 1 /\ record.dones = 0
    /\ record.actions = "zeros" /\ record.rewards = "zeros"

\* C23: for each environment, in the records appended to the sequential
\* buffer, is_first = 1 holds exactly for the very first record and for each
\* reset record appended immediately after a record with dones = 1; every
\* is_first = 1 record has dones = 0, a zero action and a zero reward, and
\* every other record, the one right after a reset record included, has
\* is_first = 0.
C23_IsFirstMarksEpisodeStarts ==
    SequentialRun =>
        \A e \in Envs :
            /\ Len(rb[e]) >= 1
            /\ \A k \in 1 .. Len(rb[e]) :
                   /\ rb[e][k].is_first \in {0, 1}
                   /\ rb[e][k].is_first = 1 <=> (k = 1 \/ rb[e][k - 1].dones = 1)
                   /\ rb[e][k].is_first = 1 => StartsEpisode(rb[e][k])
                   /\ rb[e][k].dones = 1 =>
                          k < Len(rb[e]) /\ StartsEpisode(rb[e][k + 1])

\* An environment ended an episode and went on: first record, done record,
\* reset record, then a step record with is_first = 0.
C23_Witness ==
    /\ SequentialRun
    /\ \E e \in Envs :
           /\ Len(rb[e]) >= 4
           /\ rb[e][2].dones = 1
           /\ rb[e][3].is_first = 1
           /\ rb[e][4].is_first = 0

\* ---- Episodes of the episode buffer (dreamer_v2.py:598-602, 677-705)
\* The environment episode a record belongs to.
EpisodeOf(record) == <<record.obs[1], record.obs[2]>>
DoneRecords(episode) == {k \in 1 .. Len(episode) : episode[k].dones = 1}
OneEnvironmentEpisode(episode) ==
    /\ \A k \in 1 .. Len(episode) : EpisodeOf(episode[k]) = EpisodeOf(episode[1])
    /\ episode[1].is_first = 1
    /\ DoneRecords(episode) = {Len(episode)}

\* C24: with the episode buffer every episode handed to the replay buffer
\* consists of the records of exactly one environment episode: its first
\* record has is_first = 1, exactly one record has dones = 1 and it is the
\* last; also when an environment episode is shorter than
\* per_rank_sequence_length.
C24_EpisodesHandedWhole ==
    EpisodeRun => \A n \in 1 .. Len(rb) : OneEnvironmentEpisode(rb[n])

\* The part that holds: when no environment episode is shorter than
\* per_rank_sequence_length (every episode has at least two records).
C24_LongEpisodesHandedWhole ==
    (EpisodeRun /\ args.per_rank_sequence_length <= 2) =>
        \A n \in 1 .. Len(rb) : OneEnvironmentEpisode(rb[n])

\* ---- Target critic (dreamer_v2.py:605-606, 724-745, train 278-280)
\* A training call is made; it is gradient step number gradient_steps.
GradientStepTaken == gradient_steps' = gradient_steps + 1
TargetUpdateDue == gradient_steps % args.critic_target_network_update_freq = 0

\* C27: the target critic's parameters are overwritten with the critic's
\* current parameters immediately before gradient step g exactly when g mod
\* critic_target_network_update_freq = 0, in particular before the first
\* training call; at no other point do they change, and no optimizer step
\* modifies them.
C27_TargetCriticUpdates ==
    [][/\ (GradientStepTaken /\ TargetUpdateDue) =>
              target_critic' = param_version["critic"]
       /\ ~(GradientStepTaken /\ TargetUpdateDue) =>
              target_critic' = target_critic]_vars

\* Three training calls with an update every second call: the target critic
\* holds the critic's parameters of before the third call.
C27_Witness ==
    /\ algo = "dreamer_v2" /\ pc \in {"rollout", "train", "closed"}
    /\ gradient_steps = 3
    /\ args.critic_target_network_update_freq = 2
    /\ target_critic = 2
    /\ param_version["critic"] = 3

\* ---- Training rounds (dreamer_v2.py:564-573, 707-746)
\* The rounds whose training calls are all made.
CompletedRounds == 1 .. (IF pc = "train" THEN Len(rounds) - 1 ELSE Len(rounds))

\* C28: in a fresh run no training round happens before global_step reaches
\* learning_starts, the first round that happens makes pretrain_steps
\* training calls and every later round gradient_steps, for every
\* learning_starts and train_every.
C28_RoundsFollowSchedule ==
    args.checkpoint_path.is_none =>
        \A k \in CompletedRounds :
            /\ rounds[k].global_step >= LearningStarts
            /\ rounds[k].calls = IF k = 1 THEN args.pretrain_steps
                                          ELSE args.gradient_steps

\* The part that holds: no round before learning_starts; a round makes
\* pretrain_steps calls when it happens at global_step = learning_starts and
\* gradient_steps calls otherwise, so every round after the first makes
\* gradient_steps calls.
C28_RoundsAfterLearningStarts ==
    \A k \in CompletedRounds :
        /\ rounds[k].global_step >= LearningStarts
        /\ rounds[k].calls = IF rounds[k].global_step = LearningStarts
                             THEN args.pretrain_steps ELSE args.gradient_steps
        /\ k > 1 => rounds[k].calls = args.gradient_steps

\* ---- Episodes of a rollout (ppo_recurrent.py:294-316, 240-256)
\* The rollout is split.
RolloutSplit == algo = "ppo_recurrent" /\ pc \in {"train", "done"}
\* The step indices of the episodes of environment e, in the order of the
\* episodes.
RECURSIVE EpisodeStepsOf(_, _)
EpisodeStepsOf(eps, e) ==
    IF eps = <<>> THEN <<>>
    ELSE (IF Head(eps)[1].env = e
          THEN [k \in 1 .. Len(Head(eps)) |-> Head(eps)[k].step]
          ELSE <<>>) \o EpisodeStepsOf(Tail(eps), e)

\* C29: for each environment the episodes extracted from a rollout are
\* non-empty, contiguous and in order and together contain each of the
\* rollout_steps steps exactly once; a step whose stored dones flag is
\* non-zero is always the first step of its episode.
C29_EpisodesPartitionRollout ==
    RolloutSplit =>
        /\ \A n \in 1 .. Len(episodes) :
               /\ Len(episodes[n]) > 0
               /\ \A k \in 1 .. Len(episodes[n]) :
                      /\ episodes[n][k].env = episodes[n][1].env
                      /\ episodes[n][k] = rb[episodes[n][k].env][episodes[n][k].step + 1]
                      /\ k > 1 => episodes[n][k].dones = 0
        /\ \A e \in Envs :
               EpisodeStepsOf(episodes, e) = [k \in 1 .. args.rollout_steps |-> k - 1]

\* A rollout whose first step carries a done flag and which has another done
\* flag later on: two episodes, each starting at its done step.
C29_Witness ==
    /\ RolloutSplit
    /\ \E e \in Envs :
           /\ rb[e][1].dones = 1
           /\ rb[e][3].dones = 1
           /\ rb[e][2].dones = 0
    /\ \E n \in 2 .. Len(episodes) :
           /\ episodes[n][1].step = 2 /\ episodes[n][1].dones = 1
           /\ episodes[n - 1][1].step = 0 /\ Len(episodes[n - 1]) = 2

\* ---- Initial LSTM states of training (ppo_recurrent.py:46-67, 224-260)
\* The first step of training sequence n.
FirstStep(n) == sequences[n][1]

\* C30: in every update epoch the initial actor and critic LSTM states given
\* to the agent for a training sequence are the states the agent was called
\* with at the sequence's first step during the rollout, for every sequence
\* of the episode split and of the length split; with
\* reset_recurrent_state_on_done a sequence that starts an episode after a
\* done starts from the zero state.
C30_SequencesStartFromRolloutStates ==
    RolloutSplit =>
        \A k \in 1 .. Len(train_states) :
            /\ DOMAIN train_states[k] = 1 .. Len(sequences)
            /\ \A n \in 1 .. Len(sequences) :
                   /\ train_states[k][n] =
                          agent_inputs[FirstStep(n).env][FirstStep(n).step + 1]
                   /\ (args.reset_recurrent_state_on_done /\ FirstStep(n).dones # 0) =>
                          train_states[k][n] = ZeroStates

\* Two epochs over sequences of at most two steps with the reset on: one
\* sequence starts at a done step after the first and is given the zero
\* states, one starts inside an episode and is given the states the agent
\* returned the step before.
C30_Witness ==
    /\ RolloutSplit /\ pc = "done"
    /\ args.reset_recurrent_state_on_done
    /\ args.per_rank_batch_size = SplitTo(2)
    /\ Len(train_states) = 2
    /\ \E n \in 1 .. Len(sequences) :
           /\ FirstStep(n).dones = 1 /\ FirstStep(n).step > 0
           /\ train_states[2][n] = ZeroStates
    /\ \E m \in 1 .. Len(sequences) :
           /\ FirstStep(m).dones = 0 /\ FirstStep(m).step = 2
           /\ train_states[2][m] = AgentStates(FirstStep(m).env, 1)

====
